---- MODULE Spec2Model ----
\* A model of the BotNetworkPolicy operator: the reconciler of
\* pkg/controllers/botnetworkpolicy_controller.go, the resource type of
\* api/v1alpha1/botnetworkpolicy_types.go and the provider layer of pkg/providers.
\*
\* Strings are sequences of byte values, so that strings.TrimSpace, strings.ToLower
\* and the byte-wise order of sort.Strings are computed, not assumed.
EXTENDS Integers, Sequences, FiniteSets, TLC

VARIABLES
    resource,   \* the BotNetworkPolicy object of the cluster, or NoResource
    netpols,    \* the NetworkPolicy objects of the namespace, by name (NoNP: absent)
    uidCounter, \* the UIDs the API server has handed out to BotNetworkPolicy objects
    last,       \* what the most recent step did: an invocation's calls and result
    built,      \* the builder's input and output (the builder taken alone)
    applied,    \* a function of the source taken alone: its arguments and result
    inflight    \* the invocations that run concurrently: what each has read and done

vars == <<resource, netpols, uidCounter, last, built, applied, inflight>>

\* ---------------------------------------------------------------- bounds

\* BotNetworkPolicy objects created (and so UIDs handed out) in one behaviour.
MaxUID == 2
\* Entries of spec.providers.
MaxProviders == 2
\* Entries of spec.customCidrs.
MaxCustom == 1
\* Entries of the raw list a provider's selector extracts.
MaxRaw == 1
\* CIDRs handed to the builder when it is taken alone.
MaxCIDRs == 2
\* Peers of a rule entry handed to the comparator when it is taken alone.
MaxPeers == 1
\* Match expressions of a pod selector handed to the comparator.
MaxExprs == 1
\* Header secret references of a jsonEndpoint block handed to the factory.
MaxRefs == 1
\* Elements of an array of a document, and entries of a raw list, handed to Fetch.
MaxItems == 2

\* ---------------------------------------------------------------- strings

\* unicode.IsSpace on the Latin-1 range, as strings.TrimSpace uses it.
IsSpace(c) == c \in {9, 10, 11, 12, 13, 32, 133, 160}

RECURSIVE TrimLeft(_)
TrimLeft(s) ==
    IF s = <<>> THEN <<>>
    ELSE IF IsSpace(Head(s)) THEN TrimLeft(Tail(s)) ELSE s

RECURSIVE TrimRight(_)
TrimRight(s) ==
    IF s = <<>> THEN <<>>
    ELSE IF IsSpace(s[Len(s)]) THEN TrimRight(SubSeq(s, 1, Len(s) - 1)) ELSE s

\* strings.TrimSpace
TrimSpace(s) == TrimRight(TrimLeft(s))

\* strings.ToLower on ASCII
ToLower(s) == [i \in 1..Len(s) |-> IF s[i] \in 65..90 THEN s[i] + 32 ELSE s[i]]

\* Go's < on strings: byte-wise lexicographic order.
RECURSIVE StrLess(_, _)
StrLess(a, b) ==
    IF b = <<>> THEN FALSE
    ELSE IF a = <<>> THEN TRUE
    ELSE IF Head(a) # Head(b) THEN Head(a) < Head(b)
    ELSE StrLess(Tail(a), Tail(b))

\* The elements of a set of strings in ascending order (sets.String.List followed
\* by sort.Strings, which sorts what is already sorted).
RECURSIVE SortedList(_)
SortedList(S) ==
    IF S = {} THEN <<>>
    ELSE LET m == CHOOSE x \in S : \A y \in S \ {x} : StrLess(x, y)
         IN <<m>> \o SortedList(S \ {m})

Range(s) == {s[i] : i \in 1..Len(s)}

SeqsUpTo(S, n) == UNION {[1..k -> S] : k \in 0..n}

\* The literals of the source, as byte strings.
StrGoogle == <<103, 111, 111, 103, 108, 101>>
StrAWS == <<97, 119, 115>>
StrGitHub == <<103, 105, 116, 104, 117, 98>>
StrConfigMap == <<99, 111, 110, 102, 105, 103, 109, 97, 112>>
StrJSONEndpoint == <<106, 115, 111, 110, 101, 110, 100, 112, 111, 105, 110, 116>>
\* "-allow-bots"
AllowBotsSuffix == <<45, 97, 108, 108, 111, 119, 45, 98, 111, 116, 115>>

\* The strings the model's inputs are made of: "1", "2", " 1", " " and "".
CidrOne == <<49>>
CidrTwo == <<50>>
CidrOnePadded == <<32, 49>>
Blank == <<32>>
Empty == <<>>

\* ---------------------------------------------------------------- resource type

\* A Go pointer or optional block is a sequence of length at most one: <<>> is nil.
Nil == <<>>
Ptr(v) == <<v>>

\* A nil error.
NoErr == ""

\* metadata.name and metadata.namespace of the one BotNetworkPolicy of the model.
ResourceName == <<115>>
ResourceNamespace == "default"

AnnotationKey == "bot.networking.dev/networkpolicy-name"
OwnerLabelKey == "botnetworkpolicy.bot.networking.dev/owner"

\* A map[string]string is a function on its keys; nil and empty maps are alike.
EmptyMap == [k \in {} |-> Empty]
MapGet(m, k) == IF k \in DOMAIN m THEN m[k] ELSE Empty

\* ProviderSpec.Validate switching on the name as written, not lowered.
ProviderValidateCaseSensitive(p) ==
    LET n == p.name IN
    IF n \in {StrGoogle, StrAWS, StrGitHub} THEN NoErr
    ELSE IF n = StrConfigMap THEN
        IF p.configMap = Nil
        THEN "configMap provider requires configMap configuration"
        ELSE IF p.configMap[1].name = Empty \/ p.configMap[1].key = Empty
        THEN "configMap provider requires name and key"
        ELSE NoErr
    ELSE IF n = StrJSONEndpoint THEN
        IF p.jsonEndpoint = Nil
        THEN "jsonEndpoint provider requires jsonEndpoint configuration"
        ELSE IF p.jsonEndpoint[1].url = Empty \/ p.jsonEndpoint[1].fieldPath = Empty
        THEN "jsonEndpoint provider requires url and fieldPath"
        ELSE LET refs == p.jsonEndpoint[1].headerSecretRefs
                 bad == {i \in 1..Len(refs) :
                            \/ TrimSpace(refs[i].name) = Empty
                            \/ refs[i].secretName = Empty
                            \/ refs[i].secretKey = Empty}
                 first == CHOOSE i \in bad : \A j \in bad : i <= j
             IN IF bad = {} THEN NoErr
                ELSE IF TrimSpace(refs[first].name) = Empty
                THEN "jsonEndpoint headerSecretRefs requires name"
                ELSE "jsonEndpoint headerSecretRefs requires secret name and key"
    ELSE "unsupported provider"

\* ProviderSpec.Validate
ProviderValidate(p) ==
    LET n == ToLower(p.name) IN
    IF n \in {StrGoogle, StrAWS, StrGitHub} THEN NoErr
    ELSE IF n = StrConfigMap THEN
        IF p.configMap = Nil
        THEN "configMap provider requires configMap configuration"
        ELSE IF p.configMap[1].name = Empty \/ p.configMap[1].key = Empty
        THEN "configMap provider requires name and key"
        ELSE NoErr
    ELSE IF n = StrJSONEndpoint THEN
        IF p.jsonEndpoint = Nil
        THEN "jsonEndpoint provider requires jsonEndpoint configuration"
        ELSE IF p.jsonEndpoint[1].url = Empty \/ p.jsonEndpoint[1].fieldPath = Empty
        THEN "jsonEndpoint provider requires url and fieldPath"
        ELSE LET refs == p.jsonEndpoint[1].headerSecretRefs
                 bad == {i \in 1..Len(refs) :
                            \/ TrimSpace(refs[i].name) = Empty
                            \/ refs[i].secretName = Empty
                            \/ refs[i].secretKey = Empty}
                 first == CHOOSE i \in bad : \A j \in bad : i <= j
             IN IF bad = {} THEN NoErr
                ELSE IF TrimSpace(refs[first].name) = Empty
                THEN "jsonEndpoint headerSecretRefs requires name"
                ELSE "jsonEndpoint headerSecretRefs requires secret name and key"
    ELSE "unsupported provider"

\* BotNetworkPolicy.Validate returning from inside the loop: only the first
\* declaration is validated.
ValidateFirstOnly(res) ==
    IF Len(res.providers) = 0 THEN NoErr ELSE ProviderValidate(res.providers[1])

\* BotNetworkPolicy.Validate: the first declaration's error, or nil.
Validate(res) ==
    LET ps == res.providers
        bad == {i \in 1..Len(ps) : ProviderValidate(ps[i]) # NoErr}
    IN IF bad = {} THEN NoErr
       ELSE ProviderValidate(ps[CHOOSE i \in bad : \A j \in bad : i <= j])

\* BotNetworkPolicySpec.IngressEnabled
IngressEnabled(res) == IF res.ingress = Nil THEN TRUE ELSE res.ingress[1]

\* BotNetworkPolicySpec.EgressEnabled
EgressEnabled(res) == IF res.egress = Nil THEN FALSE ELSE res.egress[1]

\* NetworkPolicyName returning the annotation as written, untrimmed.
NetworkPolicyNameUntrimmed(res) ==
    LET name == MapGet(res.annotations, AnnotationKey)
    IN IF TrimSpace(name) # Empty THEN name ELSE res.name \o AllowBotsSuffix

\* BotNetworkPolicy.NetworkPolicyName
NetworkPolicyName(res) ==
    LET name == TrimSpace(MapGet(res.annotations, AnnotationKey))
    IN IF name # Empty THEN name ELSE res.name \o AllowBotsSuffix

\* ---------------------------------------------------------------- providers

\* providers.DefaultSyncPeriod, in seconds.
DefaultSyncPeriod == 3600

\* sanitize: the trimmed non-empty entries in order, or an error when none is left.
RECURSIVE SanitizeKeep(_)
SanitizeKeep(cidrs) ==
    IF cidrs = <<>> THEN <<>>
    ELSE LET trimmed == TrimSpace(Head(cidrs))
         IN IF trimmed = Empty THEN SanitizeKeep(Tail(cidrs))
            ELSE <<trimmed>> \o SanitizeKeep(Tail(cidrs))

\* sanitize returning the empty list without an error.
sanitizeAllowEmpty(cidrs) == [cidrs |-> SanitizeKeep(cidrs), err |-> NoErr]

sanitize(cidrs) ==
    LET results == SanitizeKeep(cidrs)
    IN IF Len(results) = 0
       THEN [cidrs |-> <<>>, err |-> "provider returned no CIDRs"]
       ELSE [cidrs |-> results, err |-> NoErr]

\* The endpoints of NewFactory: defaultGoogleEndpoint, defaultAWSEndpoint and
\* defaultGitHubEndpoint, as byte strings.
defaultGoogleEndpoint ==
    <<104, 116, 116, 112, 115, 58, 47, 47, 119, 119, 119, 46, 103, 115, 116, 97,
      116, 105, 99, 46, 99, 111, 109, 47, 105, 112, 114, 97, 110, 103, 101, 115,
      47, 103, 111, 111, 103, 46, 106, 115, 111, 110>>

defaultAWSEndpoint ==
    <<104, 116, 116, 112, 115, 58, 47, 47, 105, 112, 45, 114, 97, 110, 103, 101,
      115, 46, 97, 109, 97, 122, 111, 110, 97, 119, 115, 46, 99, 111, 109, 47, 105,
      112, 45, 114, 97, 110, 103, 101, 115, 46, 106, 115, 111, 110>>

defaultGitHubEndpoint ==
    <<104, 116, 116, 112, 115, 58, 47, 47, 97, 112, 105, 46, 103, 105, 116, 104,
      117, 98, 46, 99, 111, 109, 47, 109, 101, 116, 97>>

\* The url of a static provider: the url of the declaration's own block when the
\* block is there and its url is not empty, the factory's endpoint otherwise.
EndpointOf(block, endpoint) ==
    IF block = Nil THEN endpoint
    ELSE IF block[1].url # Empty THEN block[1].url ELSE endpoint

\* Factory.FromSpec: the provider a declaration yields, or an error.
FromSpec(namespace, spec) ==
    LET verr == ProviderValidate(spec)
        n == ToLower(spec.name)
    IN IF verr # NoErr THEN [provider |-> Nil, err |-> verr]
       ELSE IF n = StrGoogle
       THEN [provider |-> Ptr([kind |-> "staticHTTP",
                               url |-> EndpointOf(spec.google, defaultGoogleEndpoint),
                               selector |-> [name |-> "googleSelectorWithScope",
                                             scopes |-> IF spec.google = Nil THEN <<>>
                                                        ELSE spec.google[1].scope]]),
             err |-> NoErr]
       ELSE IF n = StrAWS
       THEN [provider |-> Ptr([kind |-> "staticHTTP",
                               url |-> EndpointOf(spec.aws, defaultAWSEndpoint),
                               selector |-> [name |-> "awsSelectorWithFilter",
                                             services |-> IF spec.aws = Nil THEN <<>>
                                                          ELSE spec.aws[1].services,
                                             regions |-> IF spec.aws = Nil THEN <<>>
                                                         ELSE spec.aws[1].regions,
                                             networkBorderGroups |->
                                                 IF spec.aws = Nil THEN <<>>
                                                 ELSE spec.aws[1].networkBorderGroups]]),
             err |-> NoErr]
       ELSE IF n = StrGitHub
       THEN [provider |-> Ptr([kind |-> "staticHTTP",
                               url |-> EndpointOf(spec.github, defaultGitHubEndpoint),
                               selector |-> [name |-> "githubSelectorWithRoles",
                                             roles |-> IF spec.github = Nil THEN <<>>
                                                       ELSE spec.github[1].roles]]),
             err |-> NoErr]
       ELSE IF n = StrConfigMap
       THEN [provider |-> Ptr([kind |-> "configMap",
                               namespace |-> IF spec.configMap[1].namespace = Empty
                                             THEN namespace
                                             ELSE spec.configMap[1].namespace,
                               name |-> spec.configMap[1].name,
                               key |-> spec.configMap[1].key]),
             err |-> NoErr]
       ELSE IF n = StrJSONEndpoint
       THEN [provider |-> Ptr([kind |-> "jsonEndpoint",
                               namespace |-> namespace,
                               url |-> spec.jsonEndpoint[1].url,
                               fieldPath |-> spec.jsonEndpoint[1].fieldPath,
                               secretHeaders |-> spec.jsonEndpoint[1].headerSecretRefs]),
             err |-> NoErr]
       ELSE [provider |-> Nil, err |-> "unsupported provider"]

\* What the outside world answers to one provider's request: a failure (transport,
\* status, decoding, selector, lookup) or the raw list extracted from the answer.
FetchFailure == [fail |-> TRUE, raw |-> <<>>]
FetchRaw(raw) == [fail |-> FALSE, raw |-> raw]

\* Provider.Fetch: every provider ends in sanitize of what it extracted.
Fetch(provider, reply) ==
    IF reply.fail THEN [cidrs |-> <<>>, err |-> "fetch failed"]
    ELSE sanitize(reply.raw)

\* ---------------------------------------------------------------- static providers

\* strings.ToUpper on ASCII
ToUpper(s) == [i \in 1..Len(s) |-> IF s[i] \in 97..122 THEN s[i] - 32 ELSE s[i]]

\* A decoded JSON value (any): a string, an array of values, an object (a map from
\* keys to values) or a number; the one field of the record tells which.
JString(s) == [str |-> s]
JArray(items) == [arr |-> items]
JObject(fields) == [obj |-> fields]
JNumber == [num |-> 0]

\* The type assertions x.(string), x.([]any) and x.(map[string]any) succeed.
IsString(x) == "str" \in DOMAIN x
IsArray(x) == "arr" \in DOMAIN x
IsObject(x) == "obj" \in DOMAIN x

\* The keys and values static.go names (and "web", a role of the GitHub
\* document), as byte strings.
Lit ==
    [prefixes |-> <<112, 114, 101, 102, 105, 120, 101, 115>>,
     service |-> <<115, 101, 114, 118, 105, 99, 101>>,
     region |-> <<114, 101, 103, 105, 111, 110>>,
     network_border_group |-> <<110, 101, 116, 119, 111, 114, 107, 95, 98, 111, 114, 100,
                                101, 114, 95, 103, 114, 111, 117, 112>>,
     ip_prefix |-> <<105, 112, 95, 112, 114, 101, 102, 105, 120>>,
     scope |-> <<115, 99, 111, 112, 101>>,
     ipv4Prefix |-> <<105, 112, 118, 52, 80, 114, 101, 102, 105, 120>>,
     ipv6Prefix |-> <<105, 112, 118, 54, 80, 114, 101, 102, 105, 120>>,
     hooks |-> <<104, 111, 111, 107, 115>>,
     web |-> <<119, 101, 98>>,
     AMAZON |-> <<65, 77, 65, 90, 79, 78>>,
     AMAZON_CONNECT |-> <<65, 77, 65, 90, 79, 78, 95, 67, 79, 78, 78, 69, 67, 84>>,
     GLOBAL |-> <<71, 76, 79, 66, 65, 76>>,
     us_east_1 |-> <<117, 115, 45, 101, 97, 115, 116, 45, 49>>]

\* data[k].([]any) succeeds.
IsArrayAt(m, k) == IF k \in DOMAIN m THEN IsArray(m[k]) ELSE FALSE

\* v, ok := m[k].(string): ok
HasStringAt(m, k) == IF k \in DOMAIN m THEN IsString(m[k]) ELSE FALSE

\* v, _ := m[k].(string): v, the empty string when the key is missing or its value
\* is no string.
StringAt(m, k) == IF HasStringAt(m, k) THEN m[k].str ELSE Empty

\* The keys of the lookup maps the selectors build from a filter list.
LowerKeys(list) == {ToLower(TrimSpace(list[i])) : i \in 1..Len(list)}
UpperKeys(list) == {ToUpper(TrimSpace(list[i])) : i \in 1..Len(list)}

\* The concatenation of a list of lists, in order.
RECURSIVE Flatten(_)
Flatten(lists) == IF lists = <<>> THEN <<>> ELSE Head(lists) \o Flatten(Tail(lists))

\* if value := strings.TrimSpace(s); value != "" { results = append(results, value) }
AppendNonBlank(trimmed) == IF trimmed # Empty THEN <<trimmed>> ELSE <<>>

\* What one element of prefixes adds to the results of googleSelectorWithScope.
GoogleAppend(item, scopeMap) ==
    IF ~IsObject(item) THEN <<>>
    ELSE IF scopeMap # {} /\ ToLower(TrimSpace(StringAt(item.obj, Lit.scope))) \notin scopeMap
    THEN <<>>
    ELSE (IF HasStringAt(item.obj, Lit.ipv4Prefix)
          THEN AppendNonBlank(TrimSpace(StringAt(item.obj, Lit.ipv4Prefix))) ELSE <<>>)
         \o (IF HasStringAt(item.obj, Lit.ipv6Prefix)
             THEN AppendNonBlank(TrimSpace(StringAt(item.obj, Lit.ipv6Prefix))) ELSE <<>>)

googleSelectorWithScope(data, scopes) ==
    IF ~IsArrayAt(data, Lit.prefixes) THEN [cidrs |-> <<>>, err |-> "missing prefixes"]
    ELSE [cidrs |-> Flatten([i \in 1..Len(data[Lit.prefixes].arr) |->
                                GoogleAppend(data[Lit.prefixes].arr[i], LowerKeys(scopes))]),
          err |-> NoErr]

googleSelector(data) == googleSelectorWithScope(data, <<>>)

\* What one element of prefixes adds to the results of awsSelectorWithFilter, the
\* three filters joined by "or": a record passes when any active filter admits it.
AwsAppendAnyFilter(item, serviceMap, regionMap, nbgMap) ==
    IF ~IsObject(item) THEN <<>>
    ELSE IF /\ (serviceMap # {} \/ regionMap # {} \/ nbgMap # {})
            /\ ~(serviceMap # {}
                 /\ ToUpper(TrimSpace(StringAt(item.obj, Lit.service))) \in serviceMap)
            /\ ~(regionMap # {}
                 /\ ToLower(TrimSpace(StringAt(item.obj, Lit.region))) \in regionMap)
            /\ ~(nbgMap # {}
                 /\ ToLower(TrimSpace(StringAt(item.obj, Lit.network_border_group))) \in nbgMap)
    THEN <<>>
    ELSE IF HasStringAt(item.obj, Lit.ip_prefix)
    THEN AppendNonBlank(TrimSpace(StringAt(item.obj, Lit.ip_prefix)))
    ELSE <<>>

\* What one element of prefixes adds to the results of awsSelectorWithFilter.
AwsAppend(item, serviceMap, regionMap, nbgMap) ==
    IF ~IsObject(item) THEN <<>>
    ELSE IF serviceMap # {}
            /\ ToUpper(TrimSpace(StringAt(item.obj, Lit.service))) \notin serviceMap
    THEN <<>>
    ELSE IF regionMap # {}
            /\ ToLower(TrimSpace(StringAt(item.obj, Lit.region))) \notin regionMap
    THEN <<>>
    ELSE IF nbgMap # {}
            /\ ToLower(TrimSpace(StringAt(item.obj, Lit.network_border_group))) \notin nbgMap
    THEN <<>>
    ELSE IF HasStringAt(item.obj, Lit.ip_prefix)
    THEN AppendNonBlank(TrimSpace(StringAt(item.obj, Lit.ip_prefix)))
    ELSE <<>>

awsSelectorWithFilter(data, services, regions, networkBorderGroups) ==
    IF ~IsArrayAt(data, Lit.prefixes) THEN [cidrs |-> <<>>, err |-> "missing prefixes"]
    ELSE [cidrs |-> Flatten([i \in 1..Len(data[Lit.prefixes].arr) |->
                                AwsAppend(data[Lit.prefixes].arr[i], UpperKeys(services),
                                          LowerKeys(regions),
                                          LowerKeys(networkBorderGroups))]),
          err |-> NoErr]

awsSelector(data) ==
    awsSelectorWithFilter(data, <<Lit.AMAZON, Lit.AMAZON_CONNECT>>,
                          <<Lit.GLOBAL, Lit.us_east_1>>, <<>>)

\* What one requested role adds to the results of githubSelectorWithRoles.
GitHubRole(data, roleKey) ==
    IF ~IsArrayAt(data, roleKey) THEN <<>>
    ELSE Flatten([i \in 1..Len(data[roleKey].arr) |->
                     IF IsString(data[roleKey].arr[i])
                     THEN AppendNonBlank(TrimSpace(data[roleKey].arr[i].str))
                     ELSE <<>>])

\* githubSelectorWithRoles after the results are gathered.
GitHubResults(results) ==
    IF Len(results) = 0 THEN [cidrs |-> <<>>, err |-> "no CIDRs found for roles"]
    ELSE [cidrs |-> results, err |-> NoErr]

\* The roles looked up without the default: none when none is requested.
GitHubRolesNoDefault(roles) == roles

\* The roles looked up: hooks when none is requested.
GitHubRoles(roles) == IF Len(roles) = 0 THEN <<Lit.hooks>> ELSE roles

githubSelectorWithRoles(data, roles) ==
    GitHubResults(Flatten([i \in 1..Len(GitHubRoles(roles)) |->
                              GitHubRole(data, ToLower(TrimSpace(GitHubRoles(roles)[i])))]))

\* githubSelector after githubSelectorWithRoles returned.
GitHubDefault(emptyHooksArray, selected) ==
    IF selected.err # NoErr
    THEN IF emptyHooksArray THEN [cidrs |-> <<>>, err |-> NoErr] ELSE selected
    ELSE selected

githubSelector(data) ==
    GitHubDefault(IF IsArrayAt(data, Lit.hooks) THEN Len(data[Lit.hooks].arr) = 0 ELSE FALSE,
                  githubSelectorWithRoles(data, <<>>))

\* p.selector(payload): the selector of a static provider applied to a document.
Select(selector, data) ==
    IF selector.name = "googleSelectorWithScope"
    THEN googleSelectorWithScope(data, selector.scopes)
    ELSE IF selector.name = "googleSelector" THEN googleSelector(data)
    ELSE IF selector.name = "awsSelectorWithFilter"
    THEN awsSelectorWithFilter(data, selector.services, selector.regions,
                               selector.networkBorderGroups)
    ELSE IF selector.name = "awsSelector" THEN awsSelector(data)
    ELSE IF selector.name = "githubSelectorWithRoles"
    THEN githubSelectorWithRoles(data, selector.roles)
    ELSE githubSelector(data)

\* What a GET is answered with: no answer (transport error), or a status and a
\* body that decodes into a JSON object or does not (body: Nil).
NoResponse == [answered |-> FALSE, status |-> 0, body |-> Nil]
Response(status, body) == [answered |-> TRUE, status |-> status, body |-> body]

\* staticHTTPProvider.Fetch after the selector returned: selected is what the
\* selector gave, fetched what Fetch returns.
StaticSelected(selected) ==
    [selected |-> Ptr(selected),
     fetched |-> IF selected.err # NoErr THEN [cidrs |-> <<>>, err |-> selected.err]
                 ELSE sanitize(selected.cidrs)]

\* staticHTTPProvider.Fetch
StaticFetch(provider, response) ==
    IF ~response.answered
    THEN [selected |-> Nil, fetched |-> [cidrs |-> <<>>, err |-> "request failed"]]
    ELSE IF response.status < 200 \/ response.status >= 300
    THEN [selected |-> Nil, fetched |-> [cidrs |-> <<>>, err |-> "unexpected status"]]
    ELSE IF response.body = Nil
    THEN [selected |-> Nil, fetched |-> [cidrs |-> <<>>, err |-> "decode failed"]]
    ELSE StaticSelected(Select(provider.selector, response.body[1]))

\* ---------------------------------------------------------------- jsonEndpoint provider

\* strings.Split(s, sep) for a one-byte separator: the pieces between the
\* separators, one empty piece for the empty string.
RECURSIVE Split(_, _)
Split(s, sep) ==
    IF \A i \in 1..Len(s) : s[i] # sep THEN <<s>>
    ELSE LET k == CHOOSE i \in 1..Len(s) : s[i] = sep /\ \A j \in 1..(i - 1) : s[j] # sep
         IN <<SubSeq(s, 1, k - 1)>> \o Split(SubSeq(s, k + 1, Len(s)), sep)

\* The loop of navigateField over the segments that are left.
RECURSIVE NavigateFrom(_, _)
NavigateFrom(current, segments) ==
    IF segments = <<>> THEN [value |-> Ptr(current), err |-> NoErr]
    ELSE IF Head(segments) = Empty THEN NavigateFrom(current, Tail(segments))
    ELSE IF ~IsObject(current) THEN [value |-> Nil, err |-> "segment not an object"]
    ELSE IF Head(segments) \notin DOMAIN current.obj
    THEN [value |-> Nil, err |-> "missing segment"]
    ELSE NavigateFrom(current.obj[Head(segments)], Tail(segments))

\* navigateField taking the whole path as one segment.
navigateFieldUnsplit(input, path) == NavigateFrom(input, <<path>>)

\* navigateField: the path is split at "." (byte 46).
navigateField(input, path) == NavigateFrom(input, Split(path, 46))

\* matchesFilter: every condition finds a string under its field and, when it
\* has values, one of them equal to it (strings.EqualFold of the trimmed
\* strings, on ASCII the equality of the lowered strings).
matchesFilter(obj, filter) ==
    \A c \in 1..Len(filter.fieldConditions) :
        /\ filter.fieldConditions[c].field \in DOMAIN obj
        /\ IsString(obj[filter.fieldConditions[c].field])
        /\ \/ Len(filter.fieldConditions[c].values) = 0
           \/ \E v \in 1..Len(filter.fieldConditions[c].values) :
                 ToLower(TrimSpace(obj[filter.fieldConditions[c].field].str))
                     = ToLower(TrimSpace(filter.fieldConditions[c].values[v]))

\* extractCIDRFromObject: the trimmed value of the first of ip_prefix, ipv4Prefix,
\* ipv6Prefix, cidr, ipPrefix and ip that holds a string with something but white
\* space in it, or "".
extractCIDRFromObject(obj) ==
    LET commonFields == <<Lit.ip_prefix, Lit.ipv4Prefix, Lit.ipv6Prefix,
                          <<99, 105, 100, 114>>, <<105, 112, 80, 114, 101, 102, 105, 120>>,
                          <<105, 112>>>>
        found == {i \in 1..Len(commonFields) :
                     IF HasStringAt(obj, commonFields[i])
                     THEN TrimSpace(StringAt(obj, commonFields[i])) # Empty ELSE FALSE}
    IN IF found = {} THEN Empty
       ELSE TrimSpace(StringAt(obj, commonFields[CHOOSE i \in found : \A j \in found : i <= j]))

\* What one element (a string or an object) of the array adds to the result of
\* interpretCIDRs; filter is nil or points to a jsonFilter.
InterpretItem(item, filter) ==
    IF IsString(item) THEN <<item.str>>
    ELSE IF (IF filter # Nil THEN ~matchesFilter(item.obj, filter[1]) ELSE FALSE) THEN <<>>
    ELSE AppendNonBlank(extractCIDRFromObject(item.obj))

\* interpretCIDRs passing over the elements that are neither a string nor an
\* object.
interpretCIDRsLenient(value, filter) ==
    IF IsArray(value)
    THEN [cidrs |-> Flatten([i \in 1..Len(value.arr) |->
                                IF ~IsString(value.arr[i]) /\ ~IsObject(value.arr[i]) THEN <<>>
                                ELSE InterpretItem(value.arr[i], filter)]),
          err |-> NoErr]
    ELSE IF IsString(value) THEN [cidrs |-> <<value.str>>, err |-> NoErr]
    ELSE [cidrs |-> <<>>, err |-> "unsupported JSON field type"]

interpretCIDRs(value, filter) ==
    IF IsArray(value)
    THEN IF \E i \in 1..Len(value.arr) : ~IsString(value.arr[i]) /\ ~IsObject(value.arr[i])
         THEN [cidrs |-> <<>>, err |-> "array value is neither a string nor an object"]
         ELSE [cidrs |-> Flatten([i \in 1..Len(value.arr) |->
                                     InterpretItem(value.arr[i], filter)]),
               err |-> NoErr]
    ELSE IF IsString(value) THEN [cidrs |-> <<value.str>>, err |-> NoErr]
    ELSE [cidrs |-> <<>>, err |-> "unsupported JSON field type"]

\* http.Header.Add for each entry (a name and a value) of a list, in order: the
\* value is appended to the values under the canonical form of the name, whose
\* first letter and letters after "-" are upper case and the others lower case
\* (a name with white space in it is left as it is).
RECURSIVE HeaderAdd(_, _)
HeaderAdd(headers, entries) ==
    IF entries = <<>> THEN headers
    ELSE LET name == Head(entries).name
             key == IF \E i \in 1..Len(name) : IsSpace(name[i]) THEN name
                    ELSE [i \in 1..Len(name) |->
                             IF (IF i = 1 THEN TRUE ELSE name[i - 1] = 45)
                             THEN ToUpper(<<name[i]>>)[1] ELSE ToLower(<<name[i]>>)[1]]
         IN HeaderAdd(IF key \in DOMAIN headers
                      THEN [headers EXCEPT ![key] = Append(@, Head(entries).value)]
                      ELSE (key :> <<Head(entries).value>>) @@ headers,
                      Tail(entries))

\* resolveSecretHeader reading the Secret of the name in any namespace.
resolveSecretHeaderAnyNamespace(provider, secrets, ref) ==
    IF ~provider.kubeClient
    THEN [value |-> Empty, err |-> "kube client not configured for secret-backed headers"]
    ELSE IF \A s \in secrets : s.name # ref.secretName
    THEN [value |-> Empty, err |-> "fetching secret"]
    ELSE IF ref.secretKey \notin DOMAIN (CHOOSE s \in secrets : s.name = ref.secretName).data
    THEN [value |-> Empty, err |-> "secret missing key"]
    ELSE [value |-> (CHOOSE s \in secrets : s.name = ref.secretName).data[ref.secretKey],
          err |-> NoErr]

\* resolveSecretHeader: secrets are the Secret objects the client can read.
resolveSecretHeader(provider, secrets, ref) ==
    IF ~provider.kubeClient
    THEN [value |-> Empty, err |-> "kube client not configured for secret-backed headers"]
    ELSE IF \A s \in secrets : s.namespace # provider.namespace \/ s.name # ref.secretName
    THEN [value |-> Empty, err |-> "fetching secret"]
    ELSE IF ref.secretKey \notin
               DOMAIN (CHOOSE s \in secrets :
                          s.namespace = provider.namespace /\ s.name = ref.secretName).data
    THEN [value |-> Empty, err |-> "secret missing key"]
    ELSE [value |-> (CHOOSE s \in secrets :
                        s.namespace = provider.namespace /\ s.name = ref.secretName
                    ).data[ref.secretKey],
          err |-> NoErr]

\* resolveHeaders: the static headers (a list of entries, in the order the map is
\* ranged over), then one entry for each secret reference in order, or the error
\* of the first reference that does not resolve.
resolveHeaders(provider, secrets) ==
    LET refs == provider.secretHeaders
        failed == {i \in 1..Len(refs) :
                      resolveSecretHeader(provider, secrets, refs[i]).err # NoErr}
    IN IF failed # {}
       THEN [headers |-> Nil,
             err |-> resolveSecretHeader(
                         provider, secrets,
                         refs[CHOOSE i \in failed : \A j \in failed : i <= j]).err]
       ELSE [headers |->
                 Ptr(HeaderAdd(EmptyMap,
                               provider.headers
                               \o [i \in 1..Len(refs) |->
                                      [name |-> refs[i].name,
                                       value |-> resolveSecretHeader(provider, secrets,
                                                                     refs[i]).value]])),
             err |-> NoErr]

\* jsonEndpointProvider.Fetch once the answer is decoded: request is the GET that
\* was sent, navigated what navigateField returned; selected is what
\* interpretCIDRs gave, fetched what Fetch returns.
JSONDecoded(request, navigated, filter) ==
    IF navigated.err # NoErr
    THEN [request |-> request, navigated |-> Ptr(navigated), selected |-> Nil,
          fetched |-> [cidrs |-> <<>>, err |-> navigated.err]]
    ELSE [request |-> request, navigated |-> Ptr(navigated)]
         @@ StaticSelected(interpretCIDRs(navigated.value[1], filter))

\* jsonEndpointProvider.Fetch once the headers are resolved; req.Header.Add of
\* each resolved header gives the request the resolved headers.
JSONResolved(provider, resolved, response) ==
    IF resolved.err # NoErr
    THEN [request |-> Nil, navigated |-> Nil, selected |-> Nil,
          fetched |-> [cidrs |-> <<>>, err |-> resolved.err]]
    ELSE IF ~response.answered
    THEN [request |-> Ptr([method |-> "GET", url |-> provider.url,
                           headers |-> resolved.headers[1]]),
          navigated |-> Nil, selected |-> Nil,
          fetched |-> [cidrs |-> <<>>, err |-> "request failed"]]
    ELSE IF response.status < 200 \/ response.status >= 300
    THEN [request |-> Ptr([method |-> "GET", url |-> provider.url,
                           headers |-> resolved.headers[1]]),
          navigated |-> Nil, selected |-> Nil,
          fetched |-> [cidrs |-> <<>>, err |-> "unexpected status"]]
    ELSE IF response.body = Nil
    THEN [request |-> Ptr([method |-> "GET", url |-> provider.url,
                           headers |-> resolved.headers[1]]),
          navigated |-> Nil, selected |-> Nil,
          fetched |-> [cidrs |-> <<>>, err |-> "decode failed"]]
    ELSE JSONDecoded(Ptr([method |-> "GET", url |-> provider.url,
                          headers |-> resolved.headers[1]]),
                     navigateField(response.body[1], provider.fieldPath),
                     provider.filter)

\* jsonEndpointProvider.Fetch
JSONFetch(provider, secrets, response) ==
    JSONResolved(provider, resolveHeaders(provider, secrets), response)

\* ---------------------------------------------------------------- policy builder

PolicyTypeIngress == "Ingress"
PolicyTypeEgress == "Egress"

\* Go's < on the two policy types: "Egress" sorts before "Ingress".
PolicyTypeLess(a, b) == a = PolicyTypeEgress /\ b = PolicyTypeIngress

\* A list of policy types in ascending order (sort.Slice, sets.List).
RECURSIVE InsertType(_, _)
InsertType(t, sorted) ==
    IF sorted = <<>> THEN <<t>>
    ELSE IF PolicyTypeLess(Head(sorted), t)
         THEN <<Head(sorted)>> \o InsertType(t, Tail(sorted))
         ELSE <<t>> \o sorted

RECURSIVE SortTypes(_)
SortTypes(ts) == IF ts = <<>> THEN <<>> ELSE InsertType(Head(ts), SortTypes(Tail(ts)))

TypeSetList(S) ==
    IF S = {} THEN <<>>
    ELSE IF S = {PolicyTypeIngress} THEN <<PolicyTypeIngress>>
    ELSE IF S = {PolicyTypeEgress} THEN <<PolicyTypeEgress>>
    ELSE <<PolicyTypeEgress, PolicyTypeIngress>>

\* A Go slice that may be nil: Nil, or Ptr of its elements (Ptr(<<>>): empty, not nil).
Elems(slice) == IF slice = Nil THEN <<>> ELSE slice[1]

\* determinePolicyTypes testing the explicit list for nil instead of its length:
\* an explicit empty list is returned as given.
determinePolicyTypesNilCheck(requested, ingress, egress) ==
    IF requested # Nil THEN Elems(requested)
    ELSE LET fromIngress == IF ingress = Nil \/ ingress[1] THEN {PolicyTypeIngress} ELSE {}
             fromEgress == IF egress # Nil /\ egress[1] THEN {PolicyTypeEgress} ELSE {}
             enabled == fromIngress \cup fromEgress
         IN TypeSetList(IF enabled = {} THEN {PolicyTypeIngress} ELSE enabled)

determinePolicyTypes(requested, ingress, egress) ==
    IF Len(Elems(requested)) > 0 THEN Elems(requested)
    ELSE LET fromIngress == IF ingress = Nil \/ ingress[1] THEN {PolicyTypeIngress} ELSE {}
             fromEgress == IF egress # Nil /\ egress[1] THEN {PolicyTypeEgress} ELSE {}
             enabled == fromIngress \cup fromEgress
         IN TypeSetList(IF enabled = {} THEN {PolicyTypeIngress} ELSE enabled)

\* metav1.LabelSelector{}
EmptySelector == [matchLabels |-> EmptyMap, matchExpressions |-> <<>>]

\* The peers built from the address of the loop variable: every peer carries the
\* last CIDR.
PeersOfLastCidr(cidrs) ==
    [i \in 1..Len(cidrs) |-> [ipBlock |-> Ptr([cidr |-> cidrs[Len(cidrs)], except |-> <<>>])]]

\* One peer per CIDR: an IP block with no exception.
PeersOf(cidrs) ==
    [i \in 1..Len(cidrs) |-> [ipBlock |-> Ptr([cidr |-> cidrs[i], except |-> <<>>])]]

buildNetworkPolicy(res, cidrs) ==
    LET podSelector == IF res.podSelector # Nil THEN res.podSelector[1] ELSE EmptySelector
        policyTypes == determinePolicyTypes(res.policyTypes, res.ingress, res.egress)
        peers == PeersOf(cidrs)
        ingressRules == IF Len(cidrs) > 0 /\ IngressEnabled(res)
                        THEN <<[from |-> peers]>> ELSE <<>>
        egressRules == IF Len(cidrs) > 0 /\ EgressEnabled(res)
                       THEN <<[to |-> peers]>> ELSE <<>>
    IN [name |-> NetworkPolicyName(res),
        namespace |-> res.namespace,
        labels |-> [k \in {OwnerLabelKey} |-> res.name],
        annotations |-> EmptyMap,
        ownerRefs |-> <<>>,
        spec |-> [podSelector |-> podSelector,
                  policyTypes |-> policyTypes,
                  ingress |-> ingressRules,
                  egress |-> egressRules]]

\* ---------------------------------------------------------------- policy comparator

equalStringSlices(a, b) ==
    /\ Len(a) = Len(b)
    /\ \A i \in 1..Len(a) : a[i] = b[i]

selectorsEqual(a, b) ==
    /\ Cardinality(DOMAIN a.matchLabels) = Cardinality(DOMAIN b.matchLabels)
    /\ \A k \in DOMAIN a.matchLabels : MapGet(b.matchLabels, k) = a.matchLabels[k]
    /\ Len(a.matchExpressions) = Len(b.matchExpressions)
    /\ \A i \in 1..Len(a.matchExpressions) :
          LET ae == a.matchExpressions[i]
              be == b.matchExpressions[i]
          IN /\ ae.key = be.key
             /\ ae.operator = be.operator
             /\ equalStringSlices(ae.values, be.values)

\* networkPolicyPeersEqual comparing the IPBlock pointers instead of their targets:
\* two peers are then equal only when both have no IP block.
networkPolicyPeersEqualByPointer(a, b) ==
    /\ Len(a) = Len(b)
    /\ \A i \in 1..Len(a) : a[i].ipBlock = Nil /\ b[i].ipBlock = Nil

\* networkPolicyPeersEqual dereferencing the IP block of every peer: a peer
\* without an IP block never compares equal.
networkPolicyPeersEqualBlocksOnly(a, b) ==
    /\ Len(a) = Len(b)
    /\ \A i \in 1..Len(a) :
          /\ a[i].ipBlock # Nil
          /\ b[i].ipBlock # Nil
          /\ a[i].ipBlock[1].cidr = b[i].ipBlock[1].cidr
          /\ equalStringSlices(a[i].ipBlock[1].except, b[i].ipBlock[1].except)

networkPolicyPeersEqual(a, b) ==
    /\ Len(a) = Len(b)
    /\ \A i \in 1..Len(a) :
          /\ (a[i].ipBlock = Nil) = (b[i].ipBlock = Nil)
          /\ a[i].ipBlock # Nil =>
                /\ a[i].ipBlock[1].cidr = b[i].ipBlock[1].cidr
                /\ equalStringSlices(a[i].ipBlock[1].except, b[i].ipBlock[1].except)

networkPolicyIngressEqual(a, b) ==
    /\ Len(a) = Len(b)
    /\ \A i \in 1..Len(a) : networkPolicyPeersEqual(a[i].from, b[i].from)

networkPolicyEgressEqual(a, b) ==
    /\ Len(a) = Len(b)
    /\ \A i \in 1..Len(a) : networkPolicyPeersEqual(a[i].to, b[i].to)

\* networkPoliciesEqual comparing the labels and annotations as well.
networkPoliciesEqualWithMetadata(existing, desired) ==
    /\ Len(existing.spec.policyTypes) = Len(desired.spec.policyTypes)
    /\ SortTypes(existing.spec.policyTypes) = SortTypes(desired.spec.policyTypes)
    /\ networkPolicyIngressEqual(existing.spec.ingress, desired.spec.ingress)
    /\ networkPolicyEgressEqual(existing.spec.egress, desired.spec.egress)
    /\ selectorsEqual(existing.spec.podSelector, desired.spec.podSelector)
    /\ existing.labels = desired.labels
    /\ existing.annotations = desired.annotations

networkPoliciesEqual(existing, desired) ==
    /\ Len(existing.spec.policyTypes) = Len(desired.spec.policyTypes)
    /\ SortTypes(existing.spec.policyTypes) = SortTypes(desired.spec.policyTypes)
    /\ networkPolicyIngressEqual(existing.spec.ingress, desired.spec.ingress)
    /\ networkPolicyEgressEqual(existing.spec.egress, desired.spec.egress)
    /\ selectorsEqual(existing.spec.podSelector, desired.spec.podSelector)

\* ---------------------------------------------------------------- reconciler

\* The warning collectCIDRs formats for a provider it skipped.
Warning(kind, providerSpec) == [kind |-> kind, provider |-> providerSpec.name]

\* One pass of the loop of collectCIDRs after Fetch returned: a fetch error, or
\* the trimmed non-empty strings that enter the set.
PassFetched(got) ==
    IF got.err # NoErr
    THEN [outcome |-> "fetch error", fetched |-> TRUE, kept |-> {}]
    ELSE [outcome |-> "ok", fetched |-> TRUE,
          kept |-> {TrimSpace(got.cidrs[j]) : j \in 1..Len(got.cidrs)} \ {Empty}]

\* One pass of the loop after FromSpec returned: the declaration is skipped, or
\* its provider is fetched.
PassMade(made, reply) ==
    IF made.err # NoErr
    THEN [outcome |-> "skipped", fetched |-> FALSE, kept |-> {}]
    ELSE PassFetched(Fetch(made.provider[1], reply))

\* One pass of the loop of collectCIDRs over declaration i.
ProviderPass(res, replies, i) ==
    PassMade(FromSpec(res.namespace, res.providers[i]), replies[i])

\* The passes over all declarations.
PassesOf(res, replies) ==
    [i \in 1..Len(res.providers) |-> ProviderPass(res, replies, i)]

\* The indices of a set, in ascending order.
RECURSIVE Ascending(_)
Ascending(S) ==
    IF S = {} THEN <<>>
    ELSE LET m == CHOOSE x \in S : \A y \in S : x <= y
         IN <<m>> \o Ascending(S \ {m})

\* What the passes over the declarations in `passed` leave: the string set, the
\* warnings in declaration order and the Fetch calls made.
Collected(res, passes, passed) ==
    LET warned == Ascending({i \in passed : passes[i].outcome # "ok"})
    IN [set |-> UNION {passes[i].kept : i \in passed},
        warnings |-> [k \in 1..Len(warned) |->
                         Warning(passes[warned[k]].outcome, res.providers[warned[k]])],
        fetched |-> Ascending({i \in passed : passes[i].fetched})]

\* The loop of collectCIDRs leaving at the first provider that fails (break for
\* continue).
CollectLoopStopAtFailure(res, replies) ==
    LET passes == PassesOf(res, replies)
    IN Collected(res, passes,
                 {i \in DOMAIN passes :
                     \A j \in DOMAIN passes : passes[j].outcome # "ok" => i <= j})

\* The loop of collectCIDRs: every declaration is passed, in order.
CollectLoop(res, replies) ==
    Collected(res, PassesOf(res, replies), 1..Len(res.providers))

\* The end of collectCIDRs with the literal CIDRs appended to the sorted list of
\* the providers' strings instead of inserted into the set.
CollectResultLiteralsAppended(acc, customCIDRs) ==
    [cidrs |-> SortedList(acc.set) \o
                 [j \in 1..Len(customCIDRs) |-> TrimSpace(customCIDRs[j])],
     warnings |-> acc.warnings,
     fetched |-> acc.fetched,
     err |-> NoErr]

\* The end of collectCIDRs: the literal CIDRs are trimmed and inserted, the set is
\* listed in ascending order; the error is always nil.
CollectResult(acc, customCIDRs) ==
    LET custom == {TrimSpace(customCIDRs[j]) : j \in 1..Len(customCIDRs)}
    IN [cidrs |-> SortedList(acc.set \cup custom),
        warnings |-> acc.warnings,
        fetched |-> acc.fetched,
        err |-> NoErr]

\* collectCIDRs treating an empty result as an error.
collectCIDRsFailOnEmpty(res, replies) ==
    LET result == CollectResult(CollectLoop(res, replies), res.customCIDRs)
    IN [result EXCEPT !.err = IF result.cidrs = <<>> THEN "no CIDRs collected" ELSE NoErr]

collectCIDRs(res, replies) ==
    CollectResult(CollectLoop(res, replies), res.customCIDRs)

\* IsControlledBy that accepts any controller reference, whatever its UID.
IsControlledByAnyController(obj, owner) ==
    \E i \in 1..Len(obj.ownerRefs) : obj.ownerRefs[i].controller

\* metav1.IsControlledBy: the first owner reference marked controller names the owner.
IsControlledBy(obj, owner) ==
    LET ctl == {i \in 1..Len(obj.ownerRefs) : obj.ownerRefs[i].controller}
    IN /\ ctl # {}
       /\ obj.ownerRefs[CHOOSE i \in ctl : \A j \in ctl : i <= j].uid = owner.uid

\* controllerutil.SetOwnerReference in the place of SetControllerReference: the
\* reference is not marked controller.
SetOwnerReference(owner, obj) ==
    [obj EXCEPT !.ownerRefs = Append(@, [uid |-> owner.uid, controller |-> FALSE])]

\* controllerutil.SetControllerReference on an object without owner references.
SetControllerReference(owner, obj) ==
    [obj EXCEPT !.ownerRefs = Append(@, [uid |-> owner.uid, controller |-> TRUE])]

\* What the API server answers to the calls of one invocation: "ok" or "error"
\* (for a write: conflict, already exists, rejected object, transport). An
\* invocation returns at its first failed call, so at most one call fails.
ApiOk == [resourceGet |-> "ok", policyGet |-> "ok", write |-> "ok"]
ApiReplies == {ApiOk,
               [ApiOk EXCEPT !.resourceGet = "error"],
               [ApiOk EXCEPT !.policyGet = "error"],
               [ApiOk EXCEPT !.write = "error"]}

\* ensureNetworkPolicy deleting, after a successful write, the NetworkPolicy
\* objects the resource controls under other names.
EnsureDesiredPruning(res, desired, nps, api) ==
    LET found == nps[desired.name]
        existing == found[1]
        created == SetControllerReference(res, desired)
        updated == [existing EXCEPT !.spec = desired.spec,
                                    !.labels = desired.labels,
                                    !.annotations = desired.annotations]
        pruned == [n \in DOMAIN nps |->
                     IF n # desired.name /\ nps[n] # Nil
                     THEN IF IsControlledBy(nps[n][1], res) THEN Nil ELSE nps[n]
                     ELSE nps[n]]
    IN IF api.policyGet = "error"
       THEN [call |-> "none", sent |-> Nil, netpols |-> nps, err |-> "get failed"]
       ELSE IF found = Nil
       THEN IF api.write = "ok"
            THEN [call |-> "create", sent |-> Ptr(created),
                  netpols |-> [pruned EXCEPT ![desired.name] = Ptr(created)], err |-> NoErr]
            ELSE [call |-> "create", sent |-> Ptr(created), netpols |-> nps,
                  err |-> "create failed"]
       ELSE IF IsControlledBy(existing, res)
       THEN IF networkPoliciesEqual(existing, desired)
            THEN [call |-> "none", sent |-> Nil, netpols |-> nps, err |-> NoErr]
            ELSE IF api.write = "ok"
            THEN [call |-> "update", sent |-> Ptr(updated),
                  netpols |-> [pruned EXCEPT ![desired.name] = Ptr(updated)], err |-> NoErr]
            ELSE [call |-> "update", sent |-> Ptr(updated), netpols |-> nps,
                  err |-> "update failed"]
       ELSE [call |-> "none", sent |-> Nil, netpols |-> nps,
             err |-> "exists and is not controlled by BotNetworkPolicy"]

\* ensureNetworkPolicy updating with the desired object (under the resource's
\* controller reference) in the place of the object it read, so that the Update
\* carries no resourceVersion.
EnsureDesiredUnconditional(res, desired, nps, api) ==
    LET found == nps[desired.name]
        existing == found[1]
        created == SetControllerReference(res, desired)
    IN IF api.policyGet = "error"
       THEN [call |-> "none", sent |-> Nil, netpols |-> nps, err |-> "get failed"]
       ELSE IF found = Nil
       THEN IF api.write = "ok"
            THEN [call |-> "create", sent |-> Ptr(created),
                  netpols |-> [nps EXCEPT ![desired.name] = Ptr(created)], err |-> NoErr]
            ELSE [call |-> "create", sent |-> Ptr(created), netpols |-> nps,
                  err |-> "create failed"]
       ELSE IF IsControlledBy(existing, res)
       THEN IF networkPoliciesEqual(existing, desired)
            THEN [call |-> "none", sent |-> Nil, netpols |-> nps, err |-> NoErr]
            ELSE IF api.write = "ok"
            THEN [call |-> "update", sent |-> Ptr(created),
                  netpols |-> [nps EXCEPT ![desired.name] = Ptr(created)], err |-> NoErr]
            ELSE [call |-> "update", sent |-> Ptr(created), netpols |-> nps,
                  err |-> "update failed"]
       ELSE [call |-> "none", sent |-> Nil, netpols |-> nps,
             err |-> "exists and is not controlled by BotNetworkPolicy"]

\* ensureNetworkPolicy once desired is built: the call issued (with the object
\* sent), the error returned and the NetworkPolicy objects afterwards.
EnsureDesired(res, desired, nps, api) ==
    LET found == nps[desired.name]
        existing == found[1]
        created == SetControllerReference(res, desired)
        updated == [existing EXCEPT !.spec = desired.spec,
                                    !.labels = desired.labels,
                                    !.annotations = desired.annotations]
    IN IF api.policyGet = "error"
       THEN [call |-> "none", sent |-> Nil, netpols |-> nps, err |-> "get failed"]
       ELSE IF found = Nil
       THEN IF api.write = "ok"
            THEN [call |-> "create", sent |-> Ptr(created),
                  netpols |-> [nps EXCEPT ![desired.name] = Ptr(created)], err |-> NoErr]
            ELSE [call |-> "create", sent |-> Ptr(created), netpols |-> nps,
                  err |-> "create failed"]
       ELSE IF IsControlledBy(existing, res)
       THEN IF networkPoliciesEqual(existing, desired)
            THEN [call |-> "none", sent |-> Nil, netpols |-> nps, err |-> NoErr]
            ELSE IF api.write = "ok"
            THEN [call |-> "update", sent |-> Ptr(updated),
                  netpols |-> [nps EXCEPT ![desired.name] = Ptr(updated)], err |-> NoErr]
            ELSE [call |-> "update", sent |-> Ptr(updated), netpols |-> nps,
                  err |-> "update failed"]
       ELSE [call |-> "none", sent |-> Nil, netpols |-> nps,
             err |-> "exists and is not controlled by BotNetworkPolicy"]

ensureNetworkPolicy(res, cidrs, nps, api) ==
    EnsureDesired(res, buildNetworkPolicy(res, cidrs), nps, api)

\* ctrl.Result{}
NoRequeue == 0

\* What a step that is no invocation (op: "Init", "Environment") leaves in last.
Idle(op) ==
    [op |-> op, reached |-> "none", events |-> <<>>, fetched |-> <<>>, replies |-> <<>>,
     cidrs |-> <<>>, desired |-> Nil, call |-> "none", sent |-> Nil,
     requeueAfter |-> NoRequeue, err |-> NoErr]

ProviderEvents(warnings) ==
    [i \in 1..Len(warnings) |->
        [type |-> "Warning", reason |-> "ProviderWarning", message |-> warnings[i]]]

\* The delay with the resource's sync period ignored.
syncAfterDefaultOnly(res) == DefaultSyncPeriod

\* The delay Reconcile asks for at its end.
syncAfter(res) == IF res.syncPeriod = 0 THEN DefaultSyncPeriod ELSE res.syncPeriod

\* What an invocation that got as far as ensureNetworkPolicy has observed.
ReachedApply(replies, collected, desired, ensured) ==
    [Idle("Reconcile") EXCEPT
        !.events = ProviderEvents(collected.warnings),
        !.fetched = collected.fetched,
        !.replies = [i \in 1..Len(collected.fetched) |-> replies[collected.fetched[i]]],
        !.cidrs = collected.cidrs,
        !.desired = Ptr(desired),
        !.call = ensured.call,
        !.sent = ensured.sent]

\* Reconcile after ensureNetworkPolicy returned: its error, or the requeue delay.
ReconcileEnsured(res, reached, ensured) ==
    IF ensured.err # NoErr
    THEN [netpols |-> ensured.netpols,
          last |-> [reached EXCEPT !.reached = "DiffAndApply", !.err = ensured.err]]
    ELSE [netpols |-> ensured.netpols,
          last |-> [reached EXCEPT !.reached = "ScheduleNext",
                                   !.requeueAfter = syncAfter(res)]]

\* Reconcile after collectCIDRs returned.
ReconcileCollected(res, nps, api, replies, collected) ==
    IF collected.err # NoErr
    THEN [netpols |-> nps,
          last |-> [Idle("Reconcile") EXCEPT !.reached = "CollectCIDRs",
                                             !.err = collected.err]]
    ELSE LET ensured == ensureNetworkPolicy(res, collected.cidrs, nps, api)
         IN ReconcileEnsured(res,
                ReachedApply(replies, collected,
                             buildNetworkPolicy(res, collected.cidrs), ensured),
                ensured)

\* Reconcile after Validate returned.
ReconcileValidated(res, nps, api, replies, verr) ==
    IF verr # NoErr
    THEN [netpols |-> nps,
          last |-> [Idle("Reconcile") EXCEPT
                       !.reached = "Validate",
                       !.events = <<[type |-> "Warning", reason |-> "InvalidSpec",
                                     message |-> [kind |-> verr, provider |-> Empty]]>>]]
    ELSE ReconcileCollected(res, nps, api, replies, collectCIDRs(res, replies))

\* Reconcile on the cluster state (found: the BotNetworkPolicy or nil, nps: the
\* NetworkPolicy objects): the record of the invocation and the objects afterwards.
ReconcileRun(found, nps, api, replies) ==
    IF api.resourceGet = "error"
    THEN [netpols |-> nps,
          last |-> [Idle("Reconcile") EXCEPT !.reached = "Fetch", !.err = "get failed"]]
    ELSE IF found = Nil
    THEN [netpols |-> nps, last |-> [Idle("Reconcile") EXCEPT !.reached = "Fetch"]]
    ELSE ReconcileValidated(found[1], nps, api, replies, Validate(found[1]))

\* ---------------------------------------------------------------- inputs

\* A provider declaration that has a name and no block.
Decl(name) ==
    [name |-> name, google |-> Nil, aws |-> Nil, github |-> Nil,
     configMap |-> Nil, jsonEndpoint |-> Nil]

\* Provider declarations: {name: github} and {name: configMap} without its block.
GitHubDecl == Decl(StrGitHub)
ConfigMapNoBlockDecl == Decl(<<99, 111, 110, 102, 105, 103, 77, 97, 112>>)

\* podSelector: {matchLabels: {app: web}}
WebSelector == [matchLabels |-> [k \in {"app"} |-> <<119, 101, 98>>],
                matchExpressions |-> <<>>]

\* The BotNetworkPolicy objects a user applies, as a product of field values.
ResourcesOf(anns, selectors, typeLists, inFlags, outFlags, decls, customs, periods) ==
    [name : {ResourceName}, namespace : {ResourceNamespace}, uid : {0},
     annotations : anns, podSelector : selectors, policyTypes : typeLists,
     ingress : inFlags, egress : outFlags, providers : decls,
     customCIDRs : customs, syncPeriod : periods]

Resources ==
    ResourcesOf({EmptyMap}, {Ptr(WebSelector)},
                {Nil, Ptr(<<PolicyTypeEgress>>)}, {Nil}, {Nil},
                {<<GitHubDecl, GitHubDecl>>, <<GitHubDecl, ConfigMapNoBlockDecl>>},
                {<<>>, <<CidrOnePadded>>}, {0, 30})

\* What a provider's request is answered with.
Replies == {FetchFailure, FetchRaw(<<CidrOne>>), FetchRaw(<<CidrTwo, CidrOne>>)}

\* The names a NetworkPolicy of the namespace can have.
DefaultPolicyName == ResourceName \o AllowBotsSuffix
PolicyNames == {DefaultPolicyName}

\* A NetworkPolicy that some other actor created under a name.
ForeignPolicies(name) ==
    [name : {name}, namespace : {ResourceNamespace}, labels : {EmptyMap},
     annotations : {EmptyMap},
     ownerRefs : {<<>>, <<[uid |-> 0, controller |-> TRUE]>>},
     spec : {[podSelector |-> EmptySelector, policyTypes |-> <<PolicyTypeIngress>>,
              ingress |-> <<>>, egress |-> <<>>]}]

\* ---------------------------------------------------------------- actions

Init ==
    /\ resource = Nil
    /\ netpols = [n \in PolicyNames |-> Nil]
    /\ uidCounter = 0
    /\ last = Idle("Init")
    /\ built = Nil
    /\ applied = Nil
    /\ inflight = <<>>

\* The controller's Reconcile for the one BotNetworkPolicy key, the providers'
\* requests being answered from replySet.
ReconcileWith(replySet) ==
    \E api \in ApiReplies :
      \E replies \in [1..(IF resource = Nil THEN 0 ELSE Len(resource[1].providers)) -> replySet] :
        LET run == ReconcileRun(resource, netpols, api, replies)
        IN /\ netpols' = run.netpols
           /\ last' = run.last
           /\ UNCHANGED <<resource, uidCounter, built, applied, inflight>>

Reconcile == ReconcileWith(Replies)

\* A user creates the BotNetworkPolicy (the API server gives it a fresh UID) or
\* replaces the spec of the existing one.
ApplyPolicy ==
    \E r \in Resources :
        /\ IF resource = Nil
           THEN /\ uidCounter < MaxUID
                /\ uidCounter' = uidCounter + 1
                /\ resource' = Ptr([r EXCEPT !.uid = uidCounter + 1])
           ELSE /\ resource' = Ptr([r EXCEPT !.uid = resource[1].uid])
                /\ resource' # resource
                /\ UNCHANGED uidCounter
        /\ last' = Idle("Environment")
        /\ UNCHANGED <<netpols, built, applied, inflight>>

\* A user deletes the BotNetworkPolicy.
DeletePolicy ==
    /\ resource # Nil
    /\ resource' = Nil
    /\ last' = Idle("Environment")
    /\ UNCHANGED <<netpols, uidCounter, built, applied, inflight>>

\* The cluster's garbage collector removes a NetworkPolicy whose controller is a
\* BotNetworkPolicy that no longer exists.
CollectGarbage ==
    \E n \in PolicyNames :
        /\ netpols[n] # Nil
        /\ \E i \in 1..Len(netpols[n][1].ownerRefs) :
              /\ netpols[n][1].ownerRefs[i].uid # 0
              /\ IF resource = Nil THEN TRUE
                 ELSE resource[1].uid # netpols[n][1].ownerRefs[i].uid
        /\ netpols' = [netpols EXCEPT ![n] = Nil]
        /\ last' = Idle("Environment")
        /\ UNCHANGED <<resource, uidCounter, built, applied, inflight>>

\* Another actor creates a NetworkPolicy under a name the operator may derive.
ExternalCreate ==
    \E n \in PolicyNames :
        /\ netpols[n] = Nil
        /\ \E np \in ForeignPolicies(n) : netpols' = [netpols EXCEPT ![n] = Ptr(np)]
        /\ last' = Idle("Environment")
        /\ UNCHANGED <<resource, uidCounter, built, applied, inflight>>

\* Another actor edits an existing NetworkPolicy: replaces its labels and
\* annotations, or replaces its ingress rules.
ExternalEdit ==
    \E n \in PolicyNames :
        /\ netpols[n] # Nil
        /\ \/ netpols' = [netpols EXCEPT ![n][1].labels = EmptyMap,
                                          ![n][1].annotations = [k \in {"note"} |-> CidrOne]]
           \/ netpols' = [netpols EXCEPT ![n][1].spec.ingress =
                                              <<[from |-> PeersOf(<<CidrTwo>>)]>>]
        /\ netpols' # netpols
        /\ last' = Idle("Environment")
        /\ UNCHANGED <<resource, uidCounter, built, applied, inflight>>

\* Another actor deletes a NetworkPolicy.
ExternalDelete ==
    \E n \in PolicyNames :
        /\ netpols[n] # Nil
        /\ netpols' = [netpols EXCEPT ![n] = Nil]
        /\ last' = Idle("Environment")
        /\ UNCHANGED <<resource, uidCounter, built, applied, inflight>>

Next ==
    \/ Reconcile
    \/ ApplyPolicy
    \/ DeletePolicy
    \/ CollectGarbage
    \/ ExternalCreate
    \/ ExternalEdit
    \/ ExternalDelete

Spec == Init /\ [][Next]_vars

\* ---------------------------------------------------------------- the builder alone

\* The annotations of a resource: none, or the name annotation with a blank value
\* or with " 1".
BuildAnnotations ==
    {EmptyMap} \cup {[k \in {AnnotationKey} |-> v] : v \in {Blank, CidrOnePadded}}

\* The resources the builder is applied to: every explicit list of at most two
\* policy types (absent and empty included) with every flag value.
BuildResources ==
    ResourcesOf(BuildAnnotations, {Nil, Ptr(WebSelector)},
                {Nil} \cup {Ptr(ts) : ts \in SeqsUpTo({PolicyTypeIngress, PolicyTypeEgress}, 2)},
                {Nil, Ptr(TRUE), Ptr(FALSE)}, {Nil, Ptr(TRUE), Ptr(FALSE)},
                {<<>>}, {<<>>}, {0})

BuildInit ==
    /\ resource = Nil
    /\ netpols = [n \in PolicyNames |-> Nil]
    /\ uidCounter = 0
    /\ last = Idle("Init")
    /\ \E r \in BuildResources :
          \E S \in {T \in SUBSET {CidrOne, CidrTwo, <<49, 48>>} : Cardinality(T) <= MaxCIDRs} :
             built = Ptr([resource |-> r, cidrs |-> SortedList(S), desired |-> Nil])
    /\ applied = Nil
    /\ inflight = <<>>

\* buildNetworkPolicy applied to the drawn resource and CIDR list.
Build ==
    /\ built # Nil
    /\ built[1].desired = Nil
    /\ built' = Ptr([built[1] EXCEPT
                        !.desired = Ptr(buildNetworkPolicy(built[1].resource, built[1].cidrs))])
    /\ UNCHANGED <<resource, netpols, uidCounter, last, applied, inflight>>

BuildSpec == BuildInit /\ [][Build]_vars

\* ---------------------------------------------------------------- one invocation

\* One invocation on a cluster that holds the BotNetworkPolicy and no
\* NetworkPolicy, over every provider list, literal list and provider answer
\* within the bounds.
CollectInit ==
    /\ \E r \in ResourcesOf({EmptyMap}, {Nil}, {Nil}, {Nil}, {Nil},
                             SeqsUpTo({GitHubDecl}, MaxProviders),
                             SeqsUpTo({Blank, CidrOnePadded, CidrTwo}, MaxCustom), {0}) :
          resource = Ptr([r EXCEPT !.uid = 1])
    /\ netpols = [n \in PolicyNames |-> Nil]
    /\ uidCounter = 1
    /\ last = Idle("Init")
    /\ built = Nil
    /\ applied = Nil
    /\ inflight = <<>>

ReconcileOnce ==
    /\ last.op = "Init"
    /\ ReconcileWith({FetchFailure} \cup
                     {FetchRaw(raw) :
                        raw \in SeqsUpTo({Blank, CidrOnePadded, CidrTwo}, MaxRaw)})

CollectSpec == CollectInit /\ [][ReconcileOnce]_vars

\* One invocation on a cluster that holds the BotNetworkPolicy, with or without
\* the name annotation " 1", and under each of the two names the resource can
\* derive no NetworkPolicy, or the one an earlier invocation of the resource
\* created under that name with the CIDR list ["2"].
RenameInit ==
    /\ \E r \in ResourcesOf({EmptyMap, [k \in {AnnotationKey} |-> CidrOnePadded]},
                             {Nil}, {Nil}, {Nil}, {Nil},
                             SeqsUpTo({GitHubDecl}, MaxProviders), {<<>>}, {0}) :
          /\ resource = Ptr([r EXCEPT !.uid = 1])
          /\ \E held \in SUBSET {DefaultPolicyName, CidrOne} :
                netpols =
                  [n \in {DefaultPolicyName, CidrOne} |->
                     IF n \in held
                     THEN Ptr([SetControllerReference([r EXCEPT !.uid = 1],
                                   buildNetworkPolicy(r, <<CidrTwo>>))
                                 EXCEPT !.name = n])
                     ELSE Nil]
    /\ uidCounter = 1
    /\ last = Idle("Init")
    /\ built = Nil
    /\ applied = Nil
    /\ inflight = <<>>

RenameSpec == RenameInit /\ [][ReconcileOnce]_vars

\* ---------------------------------------------------------------- the comparator alone

\* The components networkPoliciesEqual reads, each over a set of values: policy
\* type lists (one in both orders), match-label maps (with an empty value and
\* with different keys), match-expression lists, and rule lists whose peers have
\* no IP block, an IP block, or an IP block with an exception.
CompareParts ==
    LET peers == {[ipBlock |-> Nil]} \cup
                 {[ipBlock |-> Ptr([cidr |-> c, except |-> x])] :
                     c \in {CidrOne, CidrTwo}, x \in {<<>>, <<CidrTwo>>}}
        exprs == [key : {"app"}, operator : {"In", "NotIn"}, values : {<<>>, <<CidrOne>>}]
    IN [types |-> {<<PolicyTypeIngress>>, <<PolicyTypeIngress, PolicyTypeEgress>>,
                   <<PolicyTypeEgress, PolicyTypeIngress>>},
        labels |-> {EmptyMap} \cup {[k \in {key} |-> v] :
                                       key \in {"app", "tier"}, v \in {Empty, CidrOne}},
        exprs |-> SeqsUpTo(exprs, MaxExprs),
        ingress |-> {<<>>} \cup {<<[from |-> ps]>> : ps \in SeqsUpTo(peers, MaxPeers)},
        egress |-> {<<>>} \cup {<<[to |-> ps]>> : ps \in SeqsUpTo(peers, MaxPeers)}]

CompareShapes ==
    [types : CompareParts.types, labels : CompareParts.labels, exprs : CompareParts.exprs,
     ingress : CompareParts.ingress, egress : CompareParts.egress]

\* The shapes that differ from a shape in at most one component.
CompareVariants(shape) ==
    {shape}
    \cup {[shape EXCEPT !.types = v] : v \in CompareParts.types}
    \cup {[shape EXCEPT !.labels = v] : v \in CompareParts.labels}
    \cup {[shape EXCEPT !.exprs = v] : v \in CompareParts.exprs}
    \cup {[shape EXCEPT !.ingress = v] : v \in CompareParts.ingress}
    \cup {[shape EXCEPT !.egress = v] : v \in CompareParts.egress}

\* The NetworkPolicy of a shape.
ComparePolicy(shape) ==
    [name |-> DefaultPolicyName, namespace |-> ResourceNamespace,
     labels |-> EmptyMap, annotations |-> EmptyMap, ownerRefs |-> <<>>,
     spec |-> [podSelector |-> [matchLabels |-> shape.labels,
                                matchExpressions |-> shape.exprs],
               policyTypes |-> shape.types,
               ingress |-> shape.ingress,
               egress |-> shape.egress]]

CompareInit ==
    /\ resource = Nil
    /\ netpols = [n \in PolicyNames |-> Nil]
    /\ uidCounter = 0
    /\ last = Idle("Init")
    /\ built = Nil
    /\ inflight = <<>>
    /\ \E x \in CompareShapes :
          \E y \in CompareVariants(x) :
             applied = Ptr([fn |-> "networkPoliciesEqual",
                            a |-> ComparePolicy(x), b |-> ComparePolicy(y),
                            result |-> Nil])

\* networkPoliciesEqual applied to the drawn pair in both orders, and to the first
\* policy and itself.
Compare ==
    /\ applied # Nil
    /\ applied[1].fn = "networkPoliciesEqual"
    /\ applied[1].result = Nil
    /\ applied' = Ptr([applied[1] EXCEPT
                          !.result = Ptr([ab |-> networkPoliciesEqual(applied[1].a, applied[1].b),
                                          ba |-> networkPoliciesEqual(applied[1].b, applied[1].a),
                                          aa |-> networkPoliciesEqual(applied[1].a, applied[1].a)])])
    /\ UNCHANGED <<resource, netpols, uidCounter, last, built, inflight>>

CompareSpec == CompareInit /\ [][Compare]_vars

\* ---------------------------------------------------------------- the factory alone

\* Provider declarations: names in several spellings ("AWS", "configMap",
\* "jsonEndpoint"), an unsupported name ("githubs") and the empty name, with and
\* without the configMap and jsonEndpoint blocks, the blocks' fields empty or not.
Declarations ==
    [name : {StrGitHub, StrGoogle, <<65, 87, 83>>,
             <<99, 111, 110, 102, 105, 103, 77, 97, 112>>,
             <<106, 115, 111, 110, 69, 110, 100, 112, 111, 105, 110, 116>>,
             <<103, 105, 116, 104, 117, 98, 115>>, Empty},
     google : {Nil}, aws : {Nil}, github : {Nil},
     configMap : {Nil} \cup {Ptr(b) : b \in [name : {Empty, <<110>>}, namespace : {Empty},
                                              key : {Empty, <<107>>}]},
     jsonEndpoint :
         {Nil} \cup {Ptr(b) : b \in [url : {Empty, <<117>>}, fieldPath : {Empty, <<102>>},
                                      headerSecretRefs :
                                          SeqsUpTo([name : {Blank, <<104>>},
                                                    secretName : {Empty, <<115>>},
                                                    secretKey : {Empty, <<107>>}], MaxRefs)]}]

DeclInit ==
    /\ resource = Nil
    /\ netpols = [n \in PolicyNames |-> Nil]
    /\ uidCounter = 0
    /\ last = Idle("Init")
    /\ built = Nil
    /\ inflight = <<>>
    /\ \E d \in Declarations :
          applied = Ptr([fn |-> "FromSpec", spec |-> d, result |-> Nil])

\* ProviderSpec.Validate and Factory.FromSpec applied to the drawn declaration.
Declare ==
    /\ applied # Nil
    /\ applied[1].fn = "FromSpec"
    /\ applied[1].result = Nil
    /\ applied' = Ptr([applied[1] EXCEPT
                          !.result = Ptr([validated |-> ProviderValidate(applied[1].spec),
                                          made |-> FromSpec(ResourceNamespace, applied[1].spec)])])
    /\ UNCHANGED <<resource, netpols, uidCounter, last, built, inflight>>

DeclSpec == DeclInit /\ [][Declare]_vars

\* ---------------------------------------------------------------- Fetch alone

\* A static provider as the tests build it, with a default selector.
StaticProvider(url, selectorName) ==
    [kind |-> "staticHTTP", url |-> url, selector |-> [name |-> selectorName]]

\* A document with the given top-level keys (a key whose value is Nil is absent).
DocOf(keys, values) ==
    LET present == {i \in 1..Len(keys) : values[i] # Nil}
    IN [k \in {keys[i] : i \in present} |->
           values[CHOOSE i \in present : keys[i] = k][1]]

\* The answers to a static provider's GET: none, a status outside 2xx, a body that
\* does not decode into an object, or one of the documents (the empty object too).
StaticResponses(docs) ==
    {NoResponse, Response(404, Nil), Response(200, Nil)}
    \cup {Response(200, Ptr(doc)) : doc \in docs \cup {DocOf(<<>>, <<>>)}}

\* The AWS documents: records with service "AMAZON", " amazon" or "EC2", region
\* "GLOBAL" or "eu-west-1" and ip_prefix " 1" or "2"; a record with a blank
\* ip_prefix; a record with only a network_border_group ("x") and an ip_prefix; a
\* record whose ip_prefix is a number; an element that is no object.
FetchAwsDocs ==
    {DocOf(<<Lit.prefixes>>, <<Ptr(JArray(items))>>) :
        items \in SeqsUpTo(
            {JObject(DocOf(<<Lit.service, Lit.region, Lit.ip_prefix>>,
                           <<Ptr(JString(s)), Ptr(JString(r)), Ptr(JString(ip))>>)) :
                s \in {Lit.AMAZON, <<32, 97, 109, 97, 122, 111, 110>>, <<69, 67, 50>>},
                r \in {Lit.GLOBAL, <<101, 117, 45, 119, 101, 115, 116, 45, 49>>},
                ip \in {CidrOnePadded, CidrTwo}}
            \cup {JObject(DocOf(<<Lit.service, Lit.region, Lit.ip_prefix>>,
                                <<Ptr(JString(Lit.AMAZON)), Ptr(JString(Lit.GLOBAL)),
                                  Ptr(JString(Blank))>>)),
                  JObject(DocOf(<<Lit.network_border_group, Lit.ip_prefix>>,
                                <<Ptr(JString(<<120>>)), Ptr(JString(CidrTwo))>>)),
                  JObject(DocOf(<<Lit.service, Lit.ip_prefix>>,
                                <<Ptr(JString(Lit.AMAZON)), Ptr(JNumber)>>)),
                  JString(CidrOne)},
            MaxItems)}

\* The AWS providers: of a declaration without an aws block, of declarations
\* whose filter lists are empty, in another case and padded ("Amazon ", "global",
\* "X") or hold a blank entry, and the provider with the default selector.
FetchAwsProviders ==
    {FromSpec(ResourceNamespace, d).provider[1] :
        d \in {Decl(StrAWS)}
              \cup {[Decl(StrAWS) EXCEPT !.aws = Ptr(blk)] :
                       blk \in [url : {Empty},
                                services : {<<>>, <<<<65, 109, 97, 122, 111, 110, 32>>>>,
                                            <<Blank>>},
                                regions : {<<>>, <<<<103, 108, 111, 98, 97, 108>>,
                                                   Lit.us_east_1>>},
                                networkBorderGroups : {<<>>, <<<<88>>>>}]}}
    \cup {StaticProvider(defaultAWSEndpoint, "awsSelector")}

\* The GitHub documents: hooks absent, a string, or an array of " 1", "2", " " and
\* a number; web absent or ["3"].
FetchGitHubDocs ==
    {DocOf(<<Lit.hooks, Lit.web>>, <<hooks, web>>) :
        hooks \in {Nil, Ptr(JString(CidrOne))}
                  \cup {Ptr(JArray(items)) :
                           items \in SeqsUpTo({JString(CidrOnePadded), JString(CidrTwo),
                                               JString(Blank), JNumber}, MaxItems)},
        web \in {Nil, Ptr(JArray(<<JString(<<51>>)>>))}}

\* The GitHub providers: roles none, " Hooks ", web and hooks, or api, and the
\* provider with the default selector.
FetchGitHubProviders ==
    {FromSpec(ResourceNamespace, d).provider[1] :
        d \in {Decl(StrGitHub)}
              \cup {[Decl(StrGitHub) EXCEPT !.github = Ptr(blk)] :
                       blk \in [url : {Empty, <<117>>},
                                roles : {<<>>, <<<<32, 72, 111, 111, 107, 115, 32>>>>,
                                         <<Lit.web, Lit.hooks>>, <<<<97, 112, 105>>>>}]}}
    \cup {StaticProvider(defaultGitHubEndpoint, "githubSelector")}

\* The Google documents: records with or without a scope ("us"), an ipv4Prefix
\* (" 1") and an ipv6Prefix ("2" or " "), and an element that is no object.
FetchGoogleDocs ==
    {DocOf(<<Lit.prefixes>>, <<Ptr(JArray(items))>>) :
        items \in SeqsUpTo(
            {JObject(DocOf(<<Lit.scope, Lit.ipv4Prefix, Lit.ipv6Prefix>>, <<scope, v4, v6>>)) :
                scope \in {Nil, Ptr(JString(<<117, 115>>))},
                v4 \in {Nil, Ptr(JString(CidrOnePadded))},
                v6 \in {Nil, Ptr(JString(CidrTwo)), Ptr(JString(Blank))}}
            \cup {JString(CidrOne)},
            MaxItems)}

FetchGoogleProviders ==
    {FromSpec(ResourceNamespace, d).provider[1] :
        d \in {Decl(StrGoogle)}
              \cup {[Decl(StrGoogle) EXCEPT !.google = Ptr([url |-> Empty, scope |-> sc])] :
                       sc \in {<<>>, <<<<32, 85, 83>>>>}}}
    \cup {StaticProvider(defaultGoogleEndpoint, "googleSelector")}

\* The static providers with the answers to their GET.
FetchCases ==
    (FetchAwsProviders \X StaticResponses(FetchAwsDocs))
    \cup (FetchGitHubProviders \X StaticResponses(FetchGitHubDocs))
    \cup (FetchGoogleProviders \X StaticResponses(FetchGoogleDocs))

\* A jsonEndpoint provider as the tests build it.
JSONProvider(fieldPath, filter, headers, secretHeaders, kubeClient) ==
    [kind |-> "jsonEndpoint", namespace |-> ResourceNamespace, url |-> <<117>>,
     fieldPath |-> fieldPath, filter |-> filter, headers |-> headers,
     secretHeaders |-> secretHeaders, kubeClient |-> kubeClient]

\* The jsonEndpoint providers with the Secret objects of the cluster and the
\* answer to their GET, in three groups.
\* Paths: the documents {"a": {"b": "1"}}, {"a": "1"}, "1" and ["1"] under the
\* paths "", "a", "a.b", "a..b", "a.x", "a.b.c" and ".".
\* Values: under the empty path and each filter (none; t present; t one of "a ";
\* t one of "x", "A"; t and u present), a string, a number, an object and the
\* arrays of strings (" 1", " "), a number, an array and the objects
\* {cidr: " 1"}, {ip_prefix: " ", cidr: "2"}, {ip_prefix: <number>, ip: "2"},
\* {t: "A"}, {cidr: "1", t: "A"}, {cidr: "2", t: " a "}, {cidr: "2", t: <number>},
\* {cidr: "1", t: "b"}, {ip: "2", cidr: "1"}.
\* Headers: with and without the client, a static header X: v, and secret
\* references (header h or x-k; secret s with key k, with the missing key z, or
\* the missing secret n), the cluster holding no Secret, default/s {k: "t"}, or
\* other/s {k: "t"}; no answer, status 404, or "1".
FetchJSONCases ==
    LET cidr == <<99, 105, 100, 114>>
        ip == <<105, 112>>
        t == <<116>>
        objects ==
            {DocOf(<<cidr>>, <<Ptr(JString(CidrOnePadded))>>),
             DocOf(<<Lit.ip_prefix, cidr>>, <<Ptr(JString(Blank)), Ptr(JString(CidrTwo))>>),
             DocOf(<<Lit.ip_prefix, ip>>, <<Ptr(JNumber), Ptr(JString(CidrTwo))>>),
             DocOf(<<t>>, <<Ptr(JString(<<65>>))>>),
             DocOf(<<cidr, t>>, <<Ptr(JString(CidrOne)), Ptr(JString(<<65>>))>>),
             DocOf(<<cidr, t>>, <<Ptr(JString(CidrTwo)), Ptr(JString(<<32, 97, 32>>))>>),
             DocOf(<<cidr, t>>, <<Ptr(JString(CidrTwo)), Ptr(JNumber)>>),
             DocOf(<<cidr, t>>, <<Ptr(JString(CidrOne)), Ptr(JString(<<98>>))>>),
             DocOf(<<ip, cidr>>, <<Ptr(JString(CidrTwo)), Ptr(JString(CidrOne))>>)}
        items == {JObject(o) : o \in objects}
                 \cup {JString(CidrOnePadded), JString(Blank), JNumber, JArray(<<>>)}
        values == {JString(CidrOnePadded), JNumber, JObject(DocOf(<<cidr>>, <<Ptr(JNumber)>>))}
                  \cup {JArray(a) : a \in SeqsUpTo(items, MaxItems)}
        filters == {Nil}
                   \cup {Ptr([fieldConditions |-> cs]) :
                            cs \in {<<[field |-> t, values |-> <<>>]>>,
                                    <<[field |-> t, values |-> <<<<97, 32>>>>]>>,
                                    <<[field |-> t, values |-> <<<<120>>, <<65>>>>]>>,
                                    <<[field |-> t, values |-> <<>>],
                                      [field |-> <<117>>, values |-> <<>>]>>}}
        refs == [name : {<<104>>, <<120, 45, 107>>}, secretName : {<<115>>},
                 secretKey : {<<107>>}]
                \cup {[name |-> <<104>>, secretName |-> <<115>>, secretKey |-> <<122>>],
                      [name |-> <<104>>, secretName |-> <<110>>, secretKey |-> <<107>>]}
        secret(ns) == [namespace |-> ns, name |-> <<115>>, data |-> (<<107>> :> <<116>>)]
    IN ({JSONProvider(path, Nil, <<>>, <<>>, FALSE) :
            path \in {Empty, <<97>>, <<97, 46, 98>>, <<97, 46, 46, 98>>, <<97, 46, 120>>,
                      <<97, 46, 98, 46, 99>>, <<46>>}}
        \X {{}}
        \X {Response(200, Ptr(doc)) :
               doc \in {JObject(DocOf(<<<<97>>>>,
                                      <<Ptr(JObject(DocOf(<<<<98>>>>,
                                                          <<Ptr(JString(CidrOne))>>)))>>)),
                        JObject(DocOf(<<<<97>>>>, <<Ptr(JString(CidrOne))>>)),
                        JString(CidrOne), JArray(<<JString(CidrOne)>>)}})
       \cup ({JSONProvider(Empty, f, <<>>, <<>>, FALSE) : f \in filters}
             \X {{}}
             \X {Response(200, Ptr(v)) : v \in values})
       \cup ({JSONProvider(Empty, Nil, hs, rs, kube) :
                 hs \in {<<>>, <<[name |-> <<88>>, value |-> <<118>>]>>},
                 rs \in SeqsUpTo(refs, MaxRefs), kube \in BOOLEAN}
             \X {{}, {secret(ResourceNamespace)}, {secret("other")}}
             \X {NoResponse, Response(404, Nil), Response(200, Ptr(JString(CidrOne)))})

FetchInit ==
    /\ resource = Nil
    /\ netpols = [n \in PolicyNames |-> Nil]
    /\ uidCounter = 0
    /\ last = Idle("Init")
    /\ built = Nil
    /\ inflight = <<>>
    /\ \/ \E c \in FetchCases :
             applied = Ptr([fn |-> "Fetch", provider |-> c[1], response |-> c[2],
                            result |-> Nil])
       \/ \E c \in FetchJSONCases :
             applied = Ptr([fn |-> "Fetch", provider |-> c[1], secrets |-> c[2],
                            response |-> c[3], result |-> Nil])

\* Fetch of a static provider.
FetchStatic ==
    /\ applied # Nil
    /\ applied[1].fn = "Fetch"
    /\ applied[1].provider.kind = "staticHTTP"
    /\ applied[1].result = Nil
    /\ applied' = Ptr([applied[1] EXCEPT
                          !.result = Ptr(StaticFetch(applied[1].provider, applied[1].response))])
    /\ UNCHANGED <<resource, netpols, uidCounter, last, built, inflight>>

\* Fetch of a jsonEndpoint provider.
FetchJSON ==
    /\ applied # Nil
    /\ applied[1].fn = "Fetch"
    /\ applied[1].provider.kind = "jsonEndpoint"
    /\ applied[1].result = Nil
    /\ applied' = Ptr([applied[1] EXCEPT
                          !.result = Ptr(JSONFetch(applied[1].provider, applied[1].secrets,
                                                   applied[1].response))])
    /\ UNCHANGED <<resource, netpols, uidCounter, last, built, inflight>>

FetchSpec == FetchInit /\ [][FetchStatic \/ FetchJSON]_vars

\* ---------------------------------------------------------------- two invocations

\* Invocations of one worker, the retries after an error included.
MaxAttempts == 2

\* What the API server does with a write: a Create is refused when an object of
\* that name exists (AlreadyExists); an Update is refused when the object is gone
\* or when the resourceVersion sent is not the stored one (Conflict), and an
\* Update that sends no resourceVersion is unconditional.
Accepts(call, sent, stored) ==
    IF call = "create" THEN stored = Nil
    ELSE IF stored = Nil THEN FALSE
    ELSE IF "resourceVersion" \in DOMAIN sent[1]
    THEN sent[1].resourceVersion = stored[1].resourceVersion
    ELSE TRUE

\* The object the API server stores for an accepted write: the object sent with
\* the next resourceVersion.
Stored(sent, stored) ==
    [resourceVersion |-> IF stored = Nil THEN 1 ELSE stored[1].resourceVersion + 1] @@ sent[1]

\* Two workers reconcile the one BotNetworkPolicy. The cluster holds no
\* NetworkPolicy of the derived name, or the one an earlier invocation created
\* with the CIDR list ["2"].
RaceInit ==
    /\ \E r \in ResourcesOf({EmptyMap}, {Nil}, {Nil}, {Nil}, {Nil},
                            {<<GitHubDecl>>}, {<<>>}, {0, 30}) :
          /\ resource = Ptr([r EXCEPT !.uid = 1])
          /\ netpols \in
               {[n \in PolicyNames |-> Nil],
                [n \in PolicyNames |->
                    Ptr(Stored(Ptr(SetControllerReference([r EXCEPT !.uid = 1],
                                       buildNetworkPolicy(r, <<CidrTwo>>))), Nil))]}
    /\ uidCounter = 1
    /\ last = Idle("Init")
    /\ built = Nil
    /\ applied = Nil
    /\ inflight = [w \in 1..2 |-> [pc |-> "idle", seen |-> Nil, replies |-> <<>>,
                                   runs |-> <<>>]]

\* A worker starts an invocation, its first or the retry after one that returned
\* an error: Reconcile up to the Get of ensureNetworkPolicy. The providers'
\* answers and the NetworkPolicy read are what the invocation goes on with.
ReconcileRead(w) ==
    /\ inflight[w].pc = "idle"
    /\ Len(inflight[w].runs) < MaxAttempts
    /\ IF inflight[w].runs = <<>> THEN TRUE
       ELSE inflight[w].runs[Len(inflight[w].runs)].err # NoErr
    /\ \E replies \in [1..Len(resource[1].providers) ->
                          {FetchFailure, FetchRaw(<<CidrOne>>), FetchRaw(<<CidrTwo>>)}] :
          inflight' = [inflight EXCEPT ![w] =
                          [@ EXCEPT !.pc = "read",
                                    !.seen = netpols[NetworkPolicyName(resource[1])],
                                    !.replies = replies]]
    /\ UNCHANGED <<resource, netpols, uidCounter, last, built, applied>>

\* The rest of the invocation. `decided` is Reconcile on what the worker read with
\* its write accepted, `refused` with its write refused; the API server decides
\* between them on the NetworkPolicy it stores now.
ReconcileFinish(w, name, decided, refused) ==
    LET call == decided.last.call
        accepted == IF call = "none" THEN TRUE
                    ELSE Accepts(call, decided.last.sent, netpols[name])
        done == IF accepted THEN decided.last ELSE refused.last
    IN /\ netpols' = IF call # "none" /\ accepted
                     THEN [netpols EXCEPT ![name] = Ptr(Stored(decided.last.sent, @))]
                     ELSE netpols
       /\ last' = done
       /\ inflight' = [inflight EXCEPT ![w] =
                          [@ EXCEPT !.pc = "idle", !.seen = Nil, !.replies = <<>>,
                                    !.runs = Append(@, [seen |-> inflight[w].seen,
                                                        before |-> netpols[name],
                                                        after |-> netpols'[name],
                                                        desired |-> done.desired,
                                                        call |-> done.call,
                                                        err |-> done.err,
                                                        requeueAfter |-> done.requeueAfter])]]
       /\ UNCHANGED <<resource, uidCounter, built, applied>>

\* A worker goes on from the Get of ensureNetworkPolicy to the end of Reconcile.
ReconcileWrite(w) ==
    /\ inflight[w].pc = "read"
    /\ ReconcileFinish(w, NetworkPolicyName(resource[1]),
          ReconcileRun(resource,
                       [netpols EXCEPT ![NetworkPolicyName(resource[1])] = inflight[w].seen],
                       ApiOk, inflight[w].replies),
          ReconcileRun(resource,
                       [netpols EXCEPT ![NetworkPolicyName(resource[1])] = inflight[w].seen],
                       [ApiOk EXCEPT !.write = "error"], inflight[w].replies))

RaceSpec ==
    RaceInit /\ [][\E w \in 1..2 : ReconcileRead(w) \/ ReconcileWrite(w)]_vars

\* ---------------------------------------------------------------- properties

\* The NetworkPolicy stored under the name derived from the BotNetworkPolicy.
Existing == netpols[NetworkPolicyName(resource[1])]

\* The step is an invocation of Reconcile that read the BotNetworkPolicy.
Reconciled == resource # Nil /\ last'.op = "Reconcile" /\ last'.reached # "Fetch"

\* The state follows an invocation of Reconcile that read the BotNetworkPolicy.
AfterReconcile == resource # Nil /\ last.op = "Reconcile" /\ last.reached # "Fetch"

\* A declaration that fails shape validation: configMap without its block.
IsConfigMapWithoutBlock(p) == ToLower(p.name) = StrConfigMap /\ p.configMap = Nil

AllDeclarationsWellFormed(res) ==
    \A i \in 1..Len(res.providers) : ~IsConfigMapWithoutBlock(res.providers[i])

\* An existing NetworkPolicy that the BotNetworkPolicy does not control: no owner
\* reference marked controller, or one with another UID.
NotControlled(np, res) ==
    \A i \in 1..Len(np.ownerRefs) :
        np.ownerRefs[i].controller => np.ownerRefs[i].uid # res.uid

\* C1 as stated: whenever the NetworkPolicy of the derived name exists and is not
\* controlled by the BotNetworkPolicy being reconciled, the invocation returns an
\* error, issues no Create and no Update, and leaves that NetworkPolicy unchanged.
C1_ConflictAlwaysFails ==
    [][(Reconciled /\ Existing # Nil /\ NotControlled(Existing[1], resource[1]))
          => (last'.err # NoErr /\ last'.call = "none" /\ netpols' = netpols)]_vars

\* C1 amended: in that case the invocation issues no Create and no Update and
\* leaves that NetworkPolicy unchanged, and it returns an error when the
\* declarations of the BotNetworkPolicy all pass shape validation (an invalid one
\* makes the invocation return before the NetworkPolicy is read).
C1_ConflictFailsWhenValid ==
    [][(Reconciled /\ Existing # Nil /\ NotControlled(Existing[1], resource[1]))
          => /\ last'.call = "none"
             /\ netpols' = netpols
             /\ AllDeclarationsWellFormed(resource[1]) => last'.err # NoErr]_vars

C1_Witness ==
    /\ AfterReconcile
    /\ Existing # Nil
    /\ NotControlled(Existing[1], resource[1])
    /\ AllDeclarationsWellFormed(resource[1])
    /\ last.err = "exists and is not controlled by BotNetworkPolicy"

\* C2: an invocation that finds the NetworkPolicy controlled by the resource and
\* with the spec of the desired rule issues no Update; and the invocation that
\* directly follows a successful Create or Update, with the same resource and the
\* same provider answers, issues no Create and no Update.
C2_Idempotent ==
    [][/\ (Reconciled /\ Existing # Nil /\ ~NotControlled(Existing[1], resource[1])
             /\ last'.desired # Nil /\ Existing[1].spec = last'.desired[1].spec)
          => (last'.call = "none" /\ netpols' = netpols)
       /\ (Reconciled /\ last.op = "Reconcile" /\ last.err = NoErr
             /\ last.call \in {"create", "update"}
             /\ last'.fetched = last.fetched /\ last'.replies = last.replies)
          => (last'.call = "none" /\ netpols' = netpols)]_vars

C2_Witness ==
    /\ AfterReconcile
    /\ last.reached = "ScheduleNext"
    /\ last.call = "none"
    /\ Len(last.cidrs) > 0
    /\ Existing # Nil
    /\ Existing[1].spec = last.desired[1].spec

\* The provider answer yields no CIDR: the request failed, or no entry of the raw
\* list is left after trimming.
ReplyFails(reply) ==
    reply.fail \/ \A j \in 1..Len(reply.raw) : TrimSpace(reply.raw[j]) = Empty

\* The trimmed non-empty entries of the answers that succeeded.
FetchedStrings(replies) ==
    UNION {{TrimSpace(replies[i].raw[j]) : j \in 1..Len(replies[i].raw)} \ {Empty} :
              i \in {k \in 1..Len(replies) : ~ReplyFails(replies[k])}}

\* The trimmed entries of the literal list.
CustomStrings(res) == {TrimSpace(res.customCIDRs[j]) : j \in 1..Len(res.customCIDRs)}

\* The CIDRs of the peers of a rule's peer list.
PeerCidrs(peers) == [i \in 1..Len(peers) |-> peers[i].ipBlock[1].cidr]

\* C3: for a resource that passes validation, Fetch is called on every declared
\* provider in declaration order whatever failed before; a failed Fetch gives
\* exactly one warning event and no CIDR; the invocation goes on to build and apply
\* (an error it returns is one of the apply step), and the rule it builds carries
\* the CIDRs of the providers that succeeded and of the literal list.
C3_ProviderFailuresIsolated ==
    (AfterReconcile /\ AllDeclarationsWellFormed(resource[1])) =>
        LET res == resource[1]
            failed == {i \in 1..Len(last.replies) : ReplyFails(last.replies[i])}
        IN /\ last.fetched = [i \in 1..Len(res.providers) |-> i]
           /\ Len(last.replies) = Len(res.providers)
           /\ Len(last.events) = Cardinality(failed)
           /\ \A i \in 1..Len(last.events) :
                 /\ last.events[i].type = "Warning"
                 /\ last.events[i].message.kind = "fetch error"
           /\ last.reached \in {"DiffAndApply", "ScheduleNext"}
           /\ last.err \in {NoErr, "get failed", "create failed", "update failed",
                            "exists and is not controlled by BotNetworkPolicy"}
           /\ Range(last.cidrs) = FetchedStrings(last.replies) \cup CustomStrings(res)
           /\ last.desired # Nil
           /\ Len(last.cidrs) > 0 =>
                 /\ Len(last.desired[1].spec.ingress) = 1
                 /\ PeerCidrs(last.desired[1].spec.ingress[1].from) = last.cidrs

C3_Witness ==
    /\ AfterReconcile
    /\ Len(resource[1].providers) = 2
    /\ Len(last.replies) = 2
    /\ ReplyFails(last.replies[1])
    /\ ~ReplyFails(last.replies[2])
    /\ Len(last.events) = 1
    /\ last.call = "create"
    /\ last.err = NoErr

\* C4: the list collectCIDRs returns holds only trimmed, non-empty strings, holds
\* none twice and is in ascending order, the entries of the literal list included.
C4_MergedSetClean ==
    (AfterReconcile /\ last.reached \in {"DiffAndApply", "ScheduleNext"}) =>
        /\ \A i \in 1..Len(last.cidrs) :
              /\ last.cidrs[i] = TrimSpace(last.cidrs[i])
              /\ last.cidrs[i] # Empty
        /\ \A i, j \in 1..Len(last.cidrs) : i < j => StrLess(last.cidrs[i], last.cidrs[j])

\* C5: when a declaration of the resource fails shape validation, the invocation
\* records one warning event (InvalidSpec), calls no Fetch, issues no Create and
\* no Update, returns no error and no requeue delay, and leaves every
\* NetworkPolicy as it was.
C5_InvalidSpecIsNoOp ==
    [][(Reconciled /\ ~AllDeclarationsWellFormed(resource[1])) =>
          /\ Len(last'.events) = 1
          /\ last'.events[1].type = "Warning"
          /\ last'.events[1].reason = "InvalidSpec"
          /\ last'.fetched = <<>>
          /\ last'.call = "none"
          /\ last'.err = NoErr
          /\ last'.requeueAfter = NoRequeue
          /\ netpols' = netpols]_vars

C5_Witness ==
    /\ AfterReconcile
    /\ ~AllDeclarationsWellFormed(resource[1])
    /\ Len(last.events) = 1
    /\ Existing # Nil
    /\ ~NotControlled(Existing[1], resource[1])

\* The rule has no ingress and no egress rule entry.
NoRuleEntries(np) == np.spec.ingress = <<>> /\ np.spec.egress = <<>>

\* C6: when every provider fails (or none is declared) and the literal list is
\* empty, the invocation still builds the desired rule, with no ingress and no
\* egress rule entry, and applies it: it creates the NetworkPolicy when there is
\* none, updates a controlled one that has rule entries, and on success the stored
\* NetworkPolicy has no rule entry and a requeue delay is returned.
C6_EmptySetIsApplied ==
    [][(/\ Reconciled
        /\ AllDeclarationsWellFormed(resource[1])
        /\ resource[1].customCIDRs = <<>>
        /\ \A i \in 1..Len(last'.replies) : ReplyFails(last'.replies[i])) =>
          /\ last'.reached \in {"DiffAndApply", "ScheduleNext"}
          /\ last'.cidrs = <<>>
          /\ last'.desired # Nil
          /\ NoRuleEntries(last'.desired[1])
          /\ (Existing = Nil /\ last'.err # "get failed") =>
                (last'.call = "create" /\ NoRuleEntries(last'.sent[1]))
          /\ (/\ Existing # Nil
              /\ ~NotControlled(Existing[1], resource[1])
              /\ ~NoRuleEntries(Existing[1])
              /\ last'.err # "get failed") =>
                (last'.call = "update" /\ NoRuleEntries(last'.sent[1]))
          /\ last'.err = NoErr =>
                /\ netpols'[NetworkPolicyName(resource[1])] # Nil
                /\ NoRuleEntries(netpols'[NetworkPolicyName(resource[1])][1])
                /\ last'.requeueAfter # NoRequeue]_vars

C6_Witness ==
    /\ AfterReconcile
    /\ Len(last.replies) = 2
    /\ \A i \in 1..2 : ReplyFails(last.replies[i])
    /\ resource[1].customCIDRs = <<>>
    /\ last.call = "update"
    /\ last.err = NoErr
    /\ NoRuleEntries(Existing[1])
    /\ last.requeueAfter # NoRequeue

\* C7: a requeue delay is returned exactly when the invocation read a resource
\* that passes validation and returned no error; it is the sync period when that
\* is not zero and one hour otherwise. A missing resource and an invalid one give
\* no delay and no error, a failed apply step gives no delay and the error.
C7_RequeueOnlyAfterSuccess ==
    last.op = "Reconcile" =>
        LET readFailed == last.reached = "Fetch" /\ last.err # NoErr
            valid == resource # Nil /\ AllDeclarationsWellFormed(resource[1])
        IN /\ (last.requeueAfter # NoRequeue) <=> (valid /\ last.err = NoErr)
           /\ last.requeueAfter # NoRequeue =>
                 last.requeueAfter = IF resource[1].syncPeriod # 0
                                     THEN resource[1].syncPeriod ELSE 3600
           /\ (~valid /\ ~readFailed) => last.err = NoErr
           /\ last.err # NoErr => last.requeueAfter = NoRequeue

C7_Witness ==
    /\ AfterReconcile
    /\ resource[1].syncPeriod = 30
    /\ last.requeueAfter = 30
    /\ last.call = "update"

\* The object has an owner reference marked controller that names the resource.
ControllerRefTo(np, res) ==
    \E i \in 1..Len(np.ownerRefs) :
        np.ownerRefs[i].controller /\ np.ownerRefs[i].uid = res.uid

\* C8: when no NetworkPolicy of the derived name exists, the invocation issues a
\* Create of an object with the spec and labels of the desired rule and a
\* controller owner reference to the resource; when one exists, is controlled by
\* the resource and differs from the desired rule, it issues an Update of that
\* object with spec, labels and annotations of the desired rule and the owner
\* references it had. A successful write stores the object sent.
C8_DiffAndApply ==
    [][(/\ Reconciled
        /\ AllDeclarationsWellFormed(resource[1])
        /\ last'.err # "get failed") =>
          LET name == NetworkPolicyName(resource[1])
              desired == last'.desired[1]
              sent == last'.sent[1]
          IN /\ Existing = Nil =>
                   /\ last'.call = "create"
                   /\ sent.name = name
                   /\ sent.spec = desired.spec
                   /\ sent.labels = desired.labels
                   /\ ControllerRefTo(sent, resource[1])
                   /\ last'.err = NoErr => netpols' = [netpols EXCEPT ![name] = Ptr(sent)]
                   /\ last'.err # NoErr => netpols' = netpols
             /\ (/\ Existing # Nil
                 /\ ~NotControlled(Existing[1], resource[1])
                 /\ ~networkPoliciesEqual(Existing[1], desired)) =>
                   /\ last'.call = "update"
                   /\ sent.name = name
                   /\ sent.spec = desired.spec
                   /\ sent.labels = desired.labels
                   /\ sent.annotations = desired.annotations
                   /\ sent.ownerRefs = Existing[1].ownerRefs
                   /\ last'.err = NoErr => netpols' = [netpols EXCEPT ![name] = Ptr(sent)]
                   /\ last'.err # NoErr => netpols' = netpols]_vars

C8_Witness ==
    /\ AfterReconcile
    /\ last.call = "update"
    /\ last.err = NoErr
    /\ Existing = last.sent
    /\ Existing[1].annotations = EmptyMap
    /\ ControllerRefTo(Existing[1], resource[1])

\* The builder has been applied to its input.
Built == built # Nil /\ built[1].desired # Nil

\* C9: with an absent or empty explicit list the policy types are {Ingress} when
\* no flag is set, {Ingress, Egress} when egress is true and ingress is unset or
\* true, {Egress} when egress is true and ingress is false, and {Ingress} when
\* both are disabled; an empty explicit list gives what an absent one gives; a
\* non-empty explicit list is returned as given.
C9_PolicyTypeDerivation ==
    Built =>
        LET res == built[1].resource
            types == built[1].desired[1].spec.policyTypes
            unset(flag) == flag = Nil
            isTrue(flag) == flag = <<TRUE>>
            isFalse(flag) == flag = <<FALSE>>
        IN /\ (res.policyTypes = Nil \/ res.policyTypes = <<<<>>>>) =>
                 /\ (unset(res.ingress) /\ unset(res.egress)) => types = <<"Ingress">>
                 /\ (isTrue(res.egress) /\ ~isFalse(res.ingress)) =>
                       (Len(types) = 2 /\ Range(types) = {"Ingress", "Egress"})
                 /\ (isTrue(res.egress) /\ isFalse(res.ingress)) => types = <<"Egress">>
                 /\ (isFalse(res.ingress) /\ ~isTrue(res.egress)) => types = <<"Ingress">>
           /\ (res.policyTypes # Nil /\ res.policyTypes # <<<<>>>>) =>
                 types = res.policyTypes[1]

C9_Witness ==
    /\ Built
    /\ built[1].resource.policyTypes = <<<<>>>>
    /\ built[1].resource.ingress = <<FALSE>>
    /\ built[1].resource.egress = <<FALSE>>
    /\ built[1].desired[1].spec.policyTypes = <<"Ingress">>

\* C10: the desired rule has no ingress rule entry when Ingress is not among its
\* policy types and no egress rule entry when Egress is not among them, also when
\* the policy types are the resource's explicit list.
C10_NoRuleForExcludedDirection ==
    Built =>
        LET np == built[1].desired[1]
        IN /\ "Ingress" \notin Range(np.spec.policyTypes) => np.spec.ingress = <<>>
           /\ "Egress" \notin Range(np.spec.policyTypes) => np.spec.egress = <<>>

\* C11: for a non-empty CIDR list, each direction among the policy types of the
\* desired rule has exactly one rule entry whose peers are the CIDR list in order:
\* Ingress one ingress rule entry, Egress one egress rule entry, the policy
\* types being explicit or derived.
C11_RuleForEachIncludedDirection ==
    (Built /\ Len(built[1].cidrs) > 0) =>
        LET np == built[1].desired[1]
        IN /\ "Ingress" \in Range(np.spec.policyTypes) =>
                 /\ Len(np.spec.ingress) = 1
                 /\ PeerCidrs(np.spec.ingress[1].from) = built[1].cidrs
           /\ "Egress" \in Range(np.spec.policyTypes) =>
                 /\ Len(np.spec.egress) = 1
                 /\ PeerCidrs(np.spec.egress[1].to) = built[1].cidrs

\* The resource has no explicit policy types and neither flag.
PlainResource(res) ==
    res.policyTypes \in {Nil, Ptr(<<>>)} /\ res.ingress = Nil /\ res.egress = Nil

\* C12: for a resource without explicit policy types and without flags and a list
\* of n >= 1 CIDRs the desired rule has policy types {Ingress}, one ingress rule
\* entry with n peers, peer i an IP block with the i-th CIDR and no exception, and
\* no egress rule entry; for n = 0 it has no rule entry at all.
C12_DefaultRule ==
    (Built /\ PlainResource(built[1].resource)) =>
        LET np == built[1].desired[1]
            cidrs == built[1].cidrs
        IN IF Len(cidrs) >= 1
           THEN /\ np.spec.policyTypes = <<"Ingress">>
                /\ Len(np.spec.ingress) = 1
                /\ Len(np.spec.ingress[1].from) = Len(cidrs)
                /\ \A i \in 1..Len(cidrs) :
                      np.spec.ingress[1].from[i] =
                          [ipBlock |-> <<[cidr |-> cidrs[i], except |-> <<>>]>>]
                /\ np.spec.egress = <<>>
           ELSE np.spec.ingress = <<>> /\ np.spec.egress = <<>>

C12_Witness ==
    /\ Built
    /\ PlainResource(built[1].resource)
    /\ Len(built[1].cidrs) = 2
    /\ Len(built[1].desired[1].spec.ingress) = 1
    /\ Len(built[1].desired[1].spec.ingress[1].from) = 2
    /\ built[1].desired[1].spec.ingress[1].from[1] # built[1].desired[1].spec.ingress[1].from[2]

\* C13: the name of the desired rule is the value of the name annotation without
\* its leading and trailing white space when that is not empty, and the resource's
\* name followed by "-allow-bots" otherwise; its namespace is the resource's, and
\* its owner label is the resource's name.
C13_Identity ==
    Built =>
        LET res == built[1].resource
            np == built[1].desired[1]
            ann == IF AnnotationKey \in DOMAIN res.annotations
                   THEN res.annotations[AnnotationKey] ELSE <<>>
            inner == {i \in 1..Len(ann) : ~IsSpace(ann[i])}
        IN /\ inner # {} =>
                 /\ \E i, j \in inner :
                       /\ \A k \in inner : i <= k /\ k <= j
                       /\ np.name = SubSeq(ann, i, j)
           /\ inner = {} => np.name = res.name \o <<45, 97, 108, 108, 111, 119, 45, 98, 111, 116, 115>>
           /\ np.namespace = res.namespace
           /\ "botnetworkpolicy.bot.networking.dev/owner" \in DOMAIN np.labels
           /\ np.labels["botnetworkpolicy.bot.networking.dev/owner"] = res.name

C13_Witness ==
    /\ Built
    /\ AnnotationKey \in DOMAIN built[1].resource.annotations
    /\ built[1].resource.annotations[AnnotationKey] = <<32, 49>>
    /\ built[1].desired[1].name = <<49>>

\* The comparator has been applied to its pair.
Compared ==
    applied # Nil /\ applied[1].fn = "networkPoliciesEqual" /\ applied[1].result # Nil

\* C14: networkPoliciesEqual of a NetworkPolicy and itself is true, whatever its
\* policy types, pod selector and rule entries, peers without an IP block included.
C14_Reflexive == Compared => applied[1].result[1].aa

C14_Witness ==
    /\ Compared
    /\ applied[1].result[1].aa
    /\ Len(applied[1].a.spec.ingress) = 1
    /\ Len(applied[1].a.spec.ingress[1].from) = 1
    /\ applied[1].a.spec.ingress[1].from[1].ipBlock = <<>>
    /\ Len(applied[1].a.spec.podSelector.matchExpressions) = 1

\* The number of entries of a list equal to a value.
CountOf(list, v) == Cardinality({i \in 1..Len(list) : list[i] = v})

\* C15: networkPoliciesEqual is true only for two policies with the same multiset
\* of policy types, the same match-label map, the same match-expression list and
\* the same ingress and egress rule entries down to each peer's CIDR and
\* exception list.
C15_EqualOnlyWhenAllAgree ==
    (Compared /\ applied[1].result[1].ab) =>
        LET a == applied[1].a.spec
            b == applied[1].b.spec
        IN /\ \A t \in {"Ingress", "Egress"} : CountOf(a.policyTypes, t) = CountOf(b.policyTypes, t)
           /\ a.podSelector.matchLabels = b.podSelector.matchLabels
           /\ a.podSelector.matchExpressions = b.podSelector.matchExpressions
           /\ a.ingress = b.ingress
           /\ a.egress = b.egress

\* C16: networkPoliciesEqual(A, B) and networkPoliciesEqual(B, A) are the same.
C16_Symmetric ==
    Compared => (applied[1].result[1].ab = applied[1].result[1].ba)

\* The factory has been applied to its declaration.
Declared == applied # Nil /\ applied[1].fn = "FromSpec" /\ applied[1].result # Nil

\* The name is the given lower-case word in some spelling of upper and lower case.
SpelledAs(name, word) ==
    /\ Len(name) = Len(word)
    /\ \A i \in 1..Len(word) : name[i] = word[i] \/ name[i] = word[i] - 32

\* A string with a character that is not white space.
NonBlank(s) == \E i \in 1..Len(s) : ~IsSpace(s[i])

\* The declarations C18 lists as accepted.
WellShaped(d) ==
    \/ \E w \in {StrGoogle, StrAWS, StrGitHub} : SpelledAs(d.name, w)
    \/ /\ SpelledAs(d.name, StrConfigMap)
       /\ d.configMap # <<>>
       /\ d.configMap[1].name # <<>>
       /\ d.configMap[1].key # <<>>
    \/ /\ SpelledAs(d.name, StrJSONEndpoint)
       /\ d.jsonEndpoint # <<>>
       /\ d.jsonEndpoint[1].url # <<>>
       /\ d.jsonEndpoint[1].fieldPath # <<>>
       /\ \A i \in 1..Len(d.jsonEndpoint[1].headerSecretRefs) :
             LET ref == d.jsonEndpoint[1].headerSecretRefs[i]
             IN NonBlank(ref.name) /\ ref.secretName # <<>> /\ ref.secretKey # <<>>

\* C18: validation accepts a declaration exactly when its name is google, aws or
\* github in any spelling of case, or configmap with a block whose name and key
\* are not empty, or jsonendpoint with a block whose url and fieldPath are not
\* empty and whose header secret references all have a non-blank header name and
\* a non-empty secret name and key; FromSpec returns an error and no provider
\* exactly for the other declarations, and a provider and no error for these.
C18_ShapeValidation ==
    Declared =>
        LET d == applied[1].spec
            r == applied[1].result[1]
        IN /\ (r.validated = "") <=> WellShaped(d)
           /\ (r.made.err # "" /\ r.made.provider = <<>>) <=> ~WellShaped(d)
           /\ (r.made.err = "" /\ r.made.provider # <<>>) <=> WellShaped(d)

C18_Witness ==
    /\ Declared
    /\ applied[1].spec.name = <<106, 115, 111, 110, 69, 110, 100, 112, 111, 105, 110, 116>>
    /\ applied[1].spec.jsonEndpoint # <<>>
    /\ Len(applied[1].spec.jsonEndpoint[1].headerSecretRefs) = 1
    /\ applied[1].result[1].validated = ""
    /\ applied[1].result[1].made.provider # <<>>
    /\ applied[1].result[1].made.provider[1].kind = "jsonEndpoint"

\* C19: a declaration that passes validation carries no block of another variant:
\* one named google, aws or github carries neither a configMap nor a jsonEndpoint
\* block, one named configmap carries no jsonEndpoint block and one named
\* jsonendpoint no configMap block.
C19_OneMatchingBlock ==
    (Declared /\ applied[1].result[1].validated = "") =>
        LET d == applied[1].spec
        IN /\ (\E w \in {StrGoogle, StrAWS, StrGitHub} : SpelledAs(d.name, w)) =>
                 (d.configMap = <<>> /\ d.jsonEndpoint = <<>>)
           /\ SpelledAs(d.name, StrConfigMap) => d.jsonEndpoint = <<>>
           /\ SpelledAs(d.name, StrJSONEndpoint) => d.configMap = <<>>

\* Fetch has been applied to its provider and answer.
Fetched == applied # Nil /\ applied[1].fn = "Fetch" /\ applied[1].result # Nil

\* Fetch got as far as sanitize: the selector of a static provider, or
\* interpretCIDRs of a jsonEndpoint provider, returned no error.
ReachedSanitize ==
    IF applied[1].result[1].selected = <<>> THEN FALSE
    ELSE applied[1].result[1].selected[1].err = ""

\* The list handed to sanitize.
RawList == applied[1].result[1].selected[1].cidrs

\* C17: Fetch of a static provider (any selector) and of a jsonEndpoint provider
\* returns an error, or a list of at least one entry whose entries are not empty
\* and have no white space at either end; when the extraction succeeded the list
\* is the non-blank entries of the raw list, trimmed, in their order, and a raw
\* list without a non-blank entry gives an error.
C17_NoEmptySuccess ==
    Fetched =>
        LET r == applied[1].result[1].fetched
        IN /\ r.err = "" =>
                 /\ Len(r.cidrs) >= 1
                 /\ \A i \in 1..Len(r.cidrs) :
                       /\ r.cidrs[i] # <<>>
                       /\ ~IsSpace(r.cidrs[i][1])
                       /\ ~IsSpace(r.cidrs[i][Len(r.cidrs[i])])
           /\ ReachedSanitize =>
                 LET kept == SelectSeq(RawList, NonBlank)
                 IN /\ kept = <<>> => r.err # ""
                    /\ kept # <<>> =>
                          /\ r.err = ""
                          /\ r.cidrs = [i \in 1..Len(kept) |-> TrimSpace(kept[i])]

C17_Witness ==
    /\ Fetched
    /\ applied[1].provider.kind = "staticHTTP"
    /\ applied[1].provider.selector.name = "githubSelector"
    /\ applied[1].response.body # <<>>
    /\ Lit.hooks \in DOMAIN applied[1].response.body[1]
    /\ applied[1].response.body[1][Lit.hooks] = [arr |-> <<>>]
    /\ applied[1].result[1].selected = <<[cidrs |-> <<>>, err |-> ""]>>
    /\ applied[1].result[1].fetched.err = "provider returned no CIDRs"

\* The AWS selector has been applied to a document with a prefixes array.
AwsSelected ==
    /\ Fetched
    /\ applied[1].provider.kind = "staticHTTP"
    /\ applied[1].provider.selector.name \in {"awsSelectorWithFilter", "awsSelector"}
    /\ applied[1].result[1].selected # <<>>
    /\ IsArrayAt(applied[1].response.body[1], Lit.prefixes)

\* The filters in force: those of awsSelector are services AMAZON and
\* AMAZON_CONNECT and regions GLOBAL and us-east-1.
ActiveFilters(selector) ==
    IF selector.name = "awsSelector"
    THEN [services |-> <<Lit.AMAZON, Lit.AMAZON_CONNECT>>,
          regions |-> <<Lit.GLOBAL, Lit.us_east_1>>,
          networkBorderGroups |-> <<>>]
    ELSE [services |-> selector.services, regions |-> selector.regions,
          networkBorderGroups |-> selector.networkBorderGroups]

\* An empty filter admits every value; another one admits a value equal to one of
\* its entries, case ignored, both trimmed.
Admits(filter, value) ==
    \/ filter = <<>>
    \/ \E i \in 1..Len(filter) : ToLower(TrimSpace(filter[i])) = ToLower(TrimSpace(value))

\* The string under a key of a record, "" when there is none or the element is
\* no record.
FieldOf(item, key) ==
    IF "obj" \notin DOMAIN item THEN <<>>
    ELSE IF key \in DOMAIN item.obj
    THEN IF "str" \in DOMAIN item.obj[key] THEN item.obj[key].str ELSE <<>>
    ELSE <<>>

\* C20: the AWS selector extracts, in order, the trimmed ip_prefix of exactly the
\* records that every active filter admits and whose ip_prefix is not blank;
\* under the default filters a single record of service EC2, or of service AMAZON
\* and region eu-west-1, gives nothing; the provider the factory builds from an
\* aws declaration without a block has no active filter and extracts every record
\* with a non-blank ip_prefix.
C20_AwsFiltering ==
    AwsSelected =>
        LET selector == applied[1].provider.selector
            items == applied[1].response.body[1][Lit.prefixes].arr
            selected == applied[1].result[1].selected[1]
            f == ActiveFilters(selector)
            HasPrefix(item) == "obj" \in DOMAIN item /\ NonBlank(FieldOf(item, Lit.ip_prefix))
            Extracted(item) ==
                /\ HasPrefix(item)
                /\ Admits(f.services, FieldOf(item, Lit.service))
                /\ Admits(f.regions, FieldOf(item, Lit.region))
                /\ Admits(f.networkBorderGroups, FieldOf(item, Lit.network_border_group))
            kept == SelectSeq(items, Extracted)
            withPrefix == SelectSeq(items, HasPrefix)
        IN /\ selected.err = ""
           /\ selected.cidrs = [i \in 1..Len(kept) |-> TrimSpace(FieldOf(kept[i], Lit.ip_prefix))]
           /\ (selector.name = "awsSelector" /\ Len(items) = 1 /\ "obj" \in DOMAIN items[1]) =>
                 /\ FieldOf(items[1], Lit.service) = <<69, 67, 50>> => selected.cidrs = <<>>
                 /\ (/\ FieldOf(items[1], Lit.service) = Lit.AMAZON
                     /\ FieldOf(items[1], Lit.region) \notin {Lit.GLOBAL, Lit.us_east_1})
                       => selected.cidrs = <<>>
           /\ (selector.name = "awsSelectorWithFilter" /\ selector.services = <<>>
                 /\ selector.regions = <<>> /\ selector.networkBorderGroups = <<>>) =>
                 Len(selected.cidrs) = Len(withPrefix)

C20_Witness ==
    /\ AwsSelected
    /\ applied[1].provider.selector.name = "awsSelector"
    /\ Len(applied[1].response.body[1][Lit.prefixes].arr) = 2
    /\ FieldOf(applied[1].response.body[1][Lit.prefixes].arr[1], Lit.service) = <<69, 67, 50>>
    /\ FieldOf(applied[1].response.body[1][Lit.prefixes].arr[2], Lit.service) = Lit.AMAZON
    /\ FieldOf(applied[1].response.body[1][Lit.prefixes].arr[2], Lit.region) = Lit.GLOBAL
    /\ applied[1].result[1].selected[1].cidrs = <<<<49>>>>

\* The GitHub selector has been applied to a decoded document.
GitHubSelected ==
    /\ Fetched
    /\ applied[1].provider.kind = "staticHTTP"
    /\ applied[1].provider.selector.name \in {"githubSelectorWithRoles", "githubSelector"}
    /\ applied[1].result[1].selected # <<>>

\* The non-blank strings of the array under a key of a document, trimmed, in
\* their order; nothing when the key is missing or its value is no array.
ArrayStrings(data, key) ==
    IF key \notin DOMAIN data THEN <<>>
    ELSE IF "arr" \notin DOMAIN data[key] THEN <<>>
    ELSE LET IsText(x) == IF "str" \in DOMAIN x THEN NonBlank(x.str) ELSE FALSE
             texts == SelectSeq(data[key].arr, IsText)
         IN [i \in 1..Len(texts) |-> TrimSpace(texts[i].str)]

\* What a list of roles extracts from a document, role after role.
RECURSIVE RoleStrings(_, _)
RoleStrings(data, roles) ==
    IF roles = <<>> THEN <<>>
    ELSE ArrayStrings(data, ToLower(TrimSpace(Head(roles)))) \o RoleStrings(data, Tail(roles))

\* C21: the GitHub selector looks up hooks when no role is requested and the
\* requested roles otherwise, each under its trimmed lower-case name, and
\* extracts the non-blank strings of their arrays in order, skipping a role whose
\* key is missing or no array. githubSelector gives the empty list without an
\* error when hooks is an empty array and an error when hooks is missing or no
\* array; githubSelectorWithRoles gives an error when nothing is extracted.
C21_GitHubRoles ==
    GitHubSelected =>
        LET selector == applied[1].provider.selector
            data == applied[1].response.body[1]
            selected == applied[1].result[1].selected[1]
            requested == IF selector.name = "githubSelector" THEN <<>> ELSE selector.roles
            extracted == RoleStrings(data, IF requested = <<>> THEN <<Lit.hooks>> ELSE requested)
            hooksIsArray == IF Lit.hooks \in DOMAIN data THEN "arr" \in DOMAIN data[Lit.hooks]
                            ELSE FALSE
        IN /\ extracted # <<>> => selected.err = "" /\ selected.cidrs = extracted
           /\ (selector.name = "githubSelectorWithRoles" /\ extracted = <<>>) =>
                 selected.err # ""
           /\ (selector.name = "githubSelector" /\ ~hooksIsArray) => selected.err # ""
           /\ (selector.name = "githubSelector" /\ hooksIsArray) =>
                 IF data[Lit.hooks].arr = <<>>
                 THEN selected.err = "" /\ selected.cidrs = <<>>
                 ELSE extracted = <<>> => selected.err # ""

\* Roles web and hooks requested of a document with web ["3"] and hooks
\* [" 1", <number>]: "3" and "1" are extracted.
C21_Witness ==
    /\ GitHubSelected
    /\ applied[1].provider.selector.name = "githubSelectorWithRoles"
    /\ applied[1].provider.selector.roles = <<Lit.web, Lit.hooks>>
    /\ Lit.hooks \in DOMAIN applied[1].response.body[1]
    /\ applied[1].response.body[1][Lit.hooks] = [arr |-> <<[str |-> <<32, 49>>], [num |-> 0]>>]
    /\ applied[1].result[1].selected[1] = [cidrs |-> <<<<51>>, <<49>>>>, err |-> ""]

\* Fetch of a jsonEndpoint provider has decoded the answer and called navigateField.
Navigated ==
    /\ Fetched
    /\ applied[1].provider.kind = "jsonEndpoint"
    /\ applied[1].result[1].navigated # <<>>

\* The segments of a path that are not empty, in order: its longest pieces
\* without a dot.
PathSegments(path) ==
    LET starts == Ascending({i \in 1..Len(path) :
                                path[i] # 46 /\ (IF i = 1 THEN TRUE ELSE path[i - 1] = 46)})
        EndOf(i) == CHOOSE j \in i..Len(path) :
                        /\ \A k \in i..j : path[k] # 46
                        /\ (IF j = Len(path) THEN TRUE ELSE path[j + 1] = 46)
    IN [n \in 1..Len(starts) |-> SubSeq(path, starts[n], EndOf(starts[n]))]

\* The value k segments down a document, or nothing when one of them meets a
\* value that is no object or an object without the key.
RECURSIVE Descend(_, _, _)
Descend(doc, segments, k) ==
    IF k = 0 THEN <<doc>>
    ELSE LET above == Descend(doc, segments, k - 1)
         IN IF above = <<>> THEN <<>>
            ELSE IF "obj" \notin DOMAIN above[1] THEN <<>>
            ELSE IF segments[k] \notin DOMAIN above[1].obj THEN <<>>
            ELSE <<above[1].obj[segments[k]]>>

\* C22: navigateField ignores the empty segments of the path, returns the whole
\* document for the empty path and the value at the path when every segment
\* names a key of the object it is applied to; at the first segment that does not,
\* it returns no value and a missing-segment error when the segment is applied to
\* an object without the key, a not-an-object error when it is applied to a value
\* that is no object.
C22_NavigateField ==
    Navigated =>
        LET doc == applied[1].response.body[1]
            path == applied[1].provider.fieldPath
            segments == PathSegments(path)
            got == applied[1].result[1].navigated[1]
            stuck == {k \in 1..Len(segments) : Descend(doc, segments, k) = <<>>}
        IN /\ path = <<>> => got = [value |-> <<doc>>, err |-> ""]
           /\ stuck = {} => got = [value |-> Descend(doc, segments, Len(segments)), err |-> ""]
           /\ stuck # {} =>
                 LET first == CHOOSE k \in stuck : \A j \in stuck : k <= j
                     above == Descend(doc, segments, first - 1)[1]
                 IN /\ got.value = <<>>
                    /\ got.err = IF "obj" \in DOMAIN above THEN "missing segment"
                                 ELSE "segment not an object"

\* The path "a..b" of {"a": {"b": "1"}} gives "1".
C22_Witness ==
    /\ Navigated
    /\ applied[1].provider.fieldPath = <<97, 46, 46, 98>>
    /\ "obj" \in DOMAIN applied[1].response.body[1]
    /\ "obj" \in DOMAIN applied[1].response.body[1].obj[<<97>>]
    /\ applied[1].result[1].navigated[1] = [value |-> <<[str |-> <<49>>]>>, err |-> ""]

\* Fetch of a jsonEndpoint provider has called interpretCIDRs on the navigated value.
Interpreted ==
    /\ Navigated
    /\ applied[1].result[1].navigated[1].err = ""
    /\ applied[1].result[1].selected # <<>>

\* The fields of an object that hold a string with something but white space in
\* it, among ip_prefix, ipv4Prefix, ipv6Prefix, cidr, ipPrefix and ip, as their
\* places in that order.
CidrFields(obj) ==
    LET names == <<Lit.ip_prefix, Lit.ipv4Prefix, Lit.ipv6Prefix, <<99, 105, 100, 114>>,
                   <<105, 112, 80, 114, 101, 102, 105, 120>>, <<105, 112>>>>
    IN {i \in 1..6 : NonBlank(FieldOf([obj |-> obj], names[i]))}

\* The value of the first of those fields, trimmed.
FirstCidr(obj) ==
    LET names == <<Lit.ip_prefix, Lit.ipv4Prefix, Lit.ipv6Prefix, <<99, 105, 100, 114>>,
                   <<105, 112, 80, 114, 101, 102, 105, 120>>, <<105, 112>>>>
    IN TrimSpace(FieldOf([obj |-> obj],
                         names[CHOOSE i \in CidrFields(obj) : \A j \in CidrFields(obj) : i <= j]))

\* What interpretCIDRs is to give for a value, Passes telling the objects that
\* pass the filter.
InterpretedAs(value, Passes(_)) ==
    IF "arr" \in DOMAIN value
    THEN IF \E i \in 1..Len(value.arr) : DOMAIN value.arr[i] \cap {"str", "obj"} = {}
         THEN [cidrs |-> <<>>, failed |-> TRUE]
         ELSE LET Yields(item) ==
                      IF "str" \in DOMAIN item THEN TRUE
                      ELSE IF Passes(item.obj) THEN CidrFields(item.obj) # {} ELSE FALSE
                  kept == SelectSeq(value.arr, Yields)
              IN [cidrs |-> [i \in 1..Len(kept) |->
                                IF "str" \in DOMAIN kept[i] THEN kept[i].str
                                ELSE FirstCidr(kept[i].obj)],
                  failed |-> FALSE]
    ELSE IF "str" \in DOMAIN value THEN [cidrs |-> <<value.str>>, failed |-> FALSE]
    ELSE [cidrs |-> <<>>, failed |-> TRUE]

\* C23: interpretCIDRs gives, for an array, in element order each string as it is
\* and for each object that passes the filter the trimmed value of the first of
\* ip_prefix, ipv4Prefix, ipv6Prefix, cidr, ipPrefix and ip that is a non-blank
\* string (an object without one is dropped); an array with an element that is
\* neither a string nor an object gives an error and no list; a string gives the
\* list of that string; any other value gives an error.
C23_InterpretCIDRs ==
    Interpreted =>
        LET filter == applied[1].provider.filter
            Passes(obj) == IF filter = <<>> THEN TRUE ELSE matchesFilter(obj, filter[1])
            expected == InterpretedAs(applied[1].result[1].navigated[1].value[1], Passes)
            selected == applied[1].result[1].selected[1]
        IN /\ selected.cidrs = expected.cidrs
           /\ (selected.err # "") = expected.failed

\* The array [{ip_prefix: " ", cidr: "2"}, " 1"] without a filter gives "2", " 1".
C23_Witness ==
    /\ Interpreted
    /\ applied[1].provider.filter = <<>>
    /\ "arr" \in DOMAIN applied[1].result[1].navigated[1].value[1]
    /\ Len(applied[1].result[1].navigated[1].value[1].arr) = 2
    /\ FieldOf(applied[1].result[1].navigated[1].value[1].arr[1], Lit.ip_prefix) = <<32>>
    /\ applied[1].result[1].navigated[1].value[1].arr[2] = [str |-> <<32, 49>>]
    /\ applied[1].result[1].selected[1] = [cidrs |-> <<<<50>>, <<32, 49>>>>, err |-> ""]

\* C24: with a filter, interpretCIDRs keeps an object exactly when every
\* condition matches it: a condition with values when the object's field is a
\* string equal to one of them, case ignored and both trimmed; a condition
\* without values when the object has the field, whatever its value.
C24_FilterConditions ==
    (Interpreted /\ applied[1].provider.filter # <<>>) =>
        LET conditions == applied[1].provider.filter[1].fieldConditions
            Matches(obj, c) ==
                IF c.field \notin DOMAIN obj THEN FALSE
                ELSE IF c.values = <<>> THEN TRUE
                ELSE Admits(c.values, FieldOf([obj |-> obj], c.field))
                     /\ "str" \in DOMAIN obj[c.field]
            Passes(obj) == \A i \in 1..Len(conditions) : Matches(obj, conditions[i])
        IN applied[1].result[1].selected[1].cidrs
               = InterpretedAs(applied[1].result[1].navigated[1].value[1], Passes).cidrs

\* Fetch has been applied to a jsonEndpoint provider.
FetchedJSON == Fetched /\ applied[1].provider.kind = "jsonEndpoint"

\* The content of the key of the Secret a reference names, in the provider's
\* namespace, as the client reads it: nothing without a client, without the
\* Secret or without the key.
SecretContent(ref) ==
    IF ~applied[1].provider.kubeClient THEN <<>>
    ELSE LET holding == {s \in applied[1].secrets :
                            /\ s.namespace = applied[1].provider.namespace
                            /\ s.name = ref.secretName
                            /\ ref.secretKey \in DOMAIN s.data}
         IN IF holding = {} THEN <<>>
            ELSE <<(CHOOSE s \in holding : TRUE).data[ref.secretKey]>>

\* The number of values the headers hold under a set of names.
RECURSIVE ValueCount(_, _)
ValueCount(headers, names) ==
    IF names = {} THEN 0
    ELSE LET n == CHOOSE x \in names : TRUE
         IN Len(headers[n]) + ValueCount(headers, names \ {n})

\* C25: when a secret header of a jsonEndpoint provider does not resolve (no
\* client, no such Secret in the provider's namespace, no such key) Fetch
\* returns an error and sends no request; when all resolve (none declared
\* included, with or without a client) one GET is sent to the provider's url
\* whose headers carry one value for each static header and one for each
\* reference, the reference's under its name (case ignored) with the key's content.
C25_SecretHeaders ==
    FetchedJSON =>
        LET refs == applied[1].provider.secretHeaders
            static == applied[1].provider.headers
            request == applied[1].result[1].request
            Held(name, value) ==
                \E n \in DOMAIN request[1].headers :
                    /\ ToLower(n) = ToLower(name)
                    /\ value \in Range(request[1].headers[n])
        IN IF \E i \in 1..Len(refs) : SecretContent(refs[i]) = <<>>
           THEN request = <<>> /\ applied[1].result[1].fetched.err # ""
           ELSE /\ request # <<>>
                /\ request[1].method = "GET"
                /\ request[1].url = applied[1].provider.url
                /\ \A i \in 1..Len(static) : Held(static[i].name, static[i].value)
                /\ \A i \in 1..Len(refs) : Held(refs[i].name, SecretContent(refs[i])[1])
                /\ ValueCount(request[1].headers, DOMAIN request[1].headers)
                       = Len(static) + Len(refs)

\* A provider with the static header X and the reference x-k to key k of Secret
\* s sends X: v and X-K: t.
C25_Witness ==
    /\ FetchedJSON
    /\ applied[1].provider.headers # <<>>
    /\ applied[1].provider.secretHeaders
           = <<[name |-> <<120, 45, 107>>, secretName |-> <<115>>, secretKey |-> <<107>>]>>
    /\ applied[1].result[1].request # <<>>
    /\ applied[1].result[1].request[1].headers
           = (<<88>> :> <<<<118>>>>) @@ (<<88, 45, 75>> :> <<<<116>>>>)
    /\ applied[1].result[1].fetched.err = ""


\* C28: labels and annotations take no part in the write decision. When the
\* existing NetworkPolicy is controlled by the resource and has the policy types,
\* pod selector and ingress and egress rules of the desired rule, the invocation
\* issues no Update and leaves the object as it is, whatever its labels and
\* annotations are; and an invocation brings the labels or annotations of an
\* existing object back to those of the desired rule only by an Update issued
\* because a compared spec field differs.
C28_LabelsNotCompared ==
    [][(Reconciled /\ Existing # Nil /\ last'.desired # Nil) =>
          LET name == NetworkPolicyName(resource[1])
              desired == last'.desired[1]
              agrees == /\ Existing[1].spec.policyTypes = desired.spec.policyTypes
                        /\ Existing[1].spec.podSelector = desired.spec.podSelector
                        /\ Existing[1].spec.ingress = desired.spec.ingress
                        /\ Existing[1].spec.egress = desired.spec.egress
              differs == \/ Existing[1].labels # desired.labels
                         \/ Existing[1].annotations # desired.annotations
          IN /\ (agrees /\ differs /\ ~NotControlled(Existing[1], resource[1])) =>
                   /\ last'.call = "none"
                   /\ last'.sent = Nil
                   /\ netpols' = netpols
             /\ (differs /\ netpols'[name] # Nil
                   /\ netpols'[name][1].labels = desired.labels
                   /\ netpols'[name][1].annotations = desired.annotations) =>
                   /\ last'.call = "update"
                   /\ ~agrees]_vars

C28_Witness ==
    /\ AfterReconcile
    /\ last.reached = "ScheduleNext"
    /\ last.call = "none"
    /\ Existing # Nil
    /\ ~NotControlled(Existing[1], resource[1])
    /\ Existing[1].spec = last.desired[1].spec
    /\ Existing[1].labels = EmptyMap
    /\ last.desired[1].labels # EmptyMap
    /\ Existing[1].annotations # last.desired[1].annotations


\* C29 as stated: every declaration of a resource that reaches collectCIDRs yields
\* a provider, no "skipped" warning is emitted, and every Warning event of an
\* invocation reports a fetch error.
C29_OnlyFetchErrors ==
    AfterReconcile =>
        /\ last.reached # "Validate" =>
              \A i \in 1..Len(resource[1].providers) :
                  FromSpec(resource[1].namespace, resource[1].providers[i]).err = NoErr
        /\ \A k \in 1..Len(last.events) :
              last.events[k].type = "Warning" =>
                  last.events[k].message.kind = "fetch error"

\* C29: every declaration of a resource that passed validation yields a provider
\* and is fetched, no "skipped" warning is emitted, and every ProviderWarning
\* event of an invocation reports a fetch error; the only other Warning event is
\* the single InvalidSpec event of an invocation that ends at validation.
C29_NoSkippedProvider ==
    AfterReconcile =>
        /\ last.reached # "Validate" =>
              /\ \A i \in 1..Len(resource[1].providers) :
                    LET made == FromSpec(resource[1].namespace, resource[1].providers[i])
                    IN made.err = NoErr /\ made.provider # Nil
              /\ last.fetched = [i \in 1..Len(resource[1].providers) |-> i]
              /\ Len(last.events) <= Len(resource[1].providers)
              /\ \A k \in 1..Len(last.events) :
                    /\ last.events[k].reason = "ProviderWarning"
                    /\ last.events[k].message.kind = "fetch error"
        /\ last.reached = "Validate" =>
              /\ Len(last.events) = 1
              /\ last.events[1].reason = "InvalidSpec"
        /\ \A k \in 1..Len(last.events) : last.events[k].message.kind # "skipped"

C29_Witness ==
    /\ AfterReconcile
    /\ last.reached = "ScheduleNext"
    /\ Len(resource[1].providers) = 2
    /\ Len(last.events) = 1
    /\ last.events[1].reason = "ProviderWarning"
    /\ last.events[1].message.kind = "fetch error"
    /\ last.fetched = <<1, 2>>


\* C27: an invocation leaves the BotNetworkPolicy and every NetworkPolicy under
\* another name than the derived one as they are, a NetworkPolicy the resource
\* controls under a name it derived before included, and it deletes nothing. It
\* issues one call at most: a Create when no NetworkPolicy has the derived name,
\* an Update when one has, and the object sent carries the derived name and the
\* resource's namespace. The NetworkPolicy of the derived name changes only by
\* that call succeeding, and then it is the object sent.
C27_OneWriteToDerivedName ==
    [][last'.op = "Reconcile" =>
          /\ resource' = resource
          /\ DOMAIN netpols' = DOMAIN netpols
          /\ \A n \in DOMAIN netpols : netpols[n] # Nil => netpols'[n] # Nil
          /\ last'.call \in {"none", "create", "update"}
          /\ last'.call = "none" => (last'.sent = Nil /\ netpols' = netpols)
          /\ last'.call # "none" =>
                LET name == NetworkPolicyName(resource[1])
                IN /\ last'.reached \in {"DiffAndApply", "ScheduleNext"}
                   /\ last'.sent # Nil
                   /\ last'.sent[1].name = name
                   /\ last'.sent[1].namespace = resource[1].namespace
                   /\ (last'.call = "create") = (netpols[name] = Nil)
                   /\ \A n \in DOMAIN netpols \ {name} : netpols'[n] = netpols[n]
                   /\ netpols'[name] \in {netpols[name], last'.sent}
                   /\ (netpols'[name] = last'.sent) = (last'.err = NoErr)]_vars

\* The name annotation now gives "1", the NetworkPolicy created under the default
\* name is still there, and the invocation created the one named "1".
C27_Witness ==
    /\ AfterReconcile
    /\ NetworkPolicyName(resource[1]) = CidrOne
    /\ last.call = "create"
    /\ last.err = NoErr
    /\ netpols[CidrOne] = last.sent
    /\ netpols[DefaultPolicyName] # Nil
    /\ netpols[DefaultPolicyName][1].name = DefaultPolicyName
    /\ IsControlledBy(netpols[DefaultPolicyName][1], resource[1])
    /\ netpols[DefaultPolicyName][1].spec # last.sent[1].spec


\* The list with two neighbours exchanged, or with one more occurrence of one of
\* its entries or of `others` at its front or at its end. (Every reordering and
\* repetition is a chain of such steps.)
Rearranged(list, others) ==
    {[i \in 1..Len(list) |-> IF i = k THEN list[k + 1]
                             ELSE IF i = k + 1 THEN list[k] ELSE list[i]] :
        k \in 1..(Len(list) - 1)}
    \cup {<<x>> \o list : x \in Range(list) \cup others}
    \cup {list \o <<x>> : x \in Range(list) \cup others}

\* The CIDR strings of the sources of the invocation: the entries of the answers
\* that succeeded and of the literal list that are not blank.
SourceStrings ==
    {e \in UNION ({Range(last.replies[i].raw) : i \in 1..Len(last.replies)}
                    \cup {Range(resource[1].customCIDRs)}) : TrimSpace(e) # Empty}

\* The inputs that differ from those of the invocation in the order of the
\* providers, or by one step in one source's order and repetitions (repetitions
\* of a CIDR string of another source included).
SameSources ==
    LET res == resource[1]
        replies == last.replies
        n == Len(res.providers)
    IN {[res |-> [res EXCEPT !.providers = [i \in 1..n |-> res.providers[p[i]]]],
         replies |-> [i \in 1..n |-> replies[p[i]]]] : p \in Permutations(1..n)}
       \cup UNION {{[res |-> res, replies |-> [replies EXCEPT ![i] = FetchRaw(s)]] :
                      s \in Rearranged(replies[i].raw, SourceStrings)} :
                   i \in {k \in 1..n : ~replies[k].fail}}
       \cup {[res |-> [res EXCEPT !.customCIDRs = s], replies |-> replies] :
               s \in Rearranged(res.customCIDRs, SourceStrings)}

\* C30: collectCIDRs returns the same list, and buildNetworkPolicy the same rule,
\* when the providers are declared in another order, when the entries of a
\* provider's answer or of the literal list come in another order or several
\* times, and when a CIDR of one source is repeated in another: on such inputs
\* they return what the invocation that has just succeeded got from them, and an
\* invocation on such inputs that follows it issues no call.
C30_OrderAndRepetitionIrrelevant ==
    (AfterReconcile /\ last.reached = "ScheduleNext") =>
        \A v \in SameSources :
            LET cidrs == collectCIDRs(v.res, v.replies).cidrs
            IN /\ cidrs = last.cidrs
               /\ buildNetworkPolicy(v.res, cidrs) = last.desired[1]
               /\ ensureNetworkPolicy(v.res, cidrs, netpols, ApiOk).call = "none"

\* Two providers answered [" 1"] and ["2"], the literal list is ["2"], and the
\* invocation wrote the rule with the two CIDRs.
C30_Witness ==
    /\ AfterReconcile
    /\ last.err = NoErr
    /\ last.call \in {"create", "update"}
    /\ Len(last.replies) = 2
    /\ last.replies[1] = FetchRaw(<<CidrOnePadded>>)
    /\ last.replies[2] = FetchRaw(<<CidrTwo>>)
    /\ resource[1].customCIDRs = <<CidrTwo>>
    /\ last.cidrs = <<CidrOne, CidrTwo>>
    /\ \E v \in SameSources : v.replies = <<last.replies[2], last.replies[1]>>
    /\ \E v \in SameSources : v.replies[2].raw = <<CidrTwo, CidrOnePadded>>
    /\ \E v \in SameSources : v.res.customCIDRs = <<CidrOnePadded, CidrTwo>>


\* The invocations that have returned, as pairs of a worker and the number of its
\* run.
Returned == {<<w, k>> \in (DOMAIN inflight) \X (1..MaxAttempts) : k <= Len(inflight[w].runs)}

RunOf(wk) == inflight[wk[1]].runs[wk[2]]

\* C26: with two workers reconciling the one resource, their reads and writes
\* interleaved, there is at most one NetworkPolicy of the derived name; of the
\* invocations that read it as absent at most one has its Create accepted, and
\* each other one issued a Create, returned an error and asked for no delay. A
\* write that is accepted replaces the very object the invocation read, so no
\* result is overwritten unseen. An invocation that returns without error has
\* written the rule it desired or has read it, and the retry of an invocation that
\* returned an error reads again, returns without error and leaves the rule it
\* desires stored.
C26_NoSilentOverwrite ==
    inflight # <<>> =>
        /\ DOMAIN netpols = {NetworkPolicyName(resource[1])}
        /\ Cardinality({wk \in Returned : RunOf(wk).seen = Nil /\ RunOf(wk).err = NoErr}) <= 1
        /\ \A wk \in Returned :
              LET run == RunOf(wk)
              IN /\ (run.seen = Nil /\ run.before # Nil) =>
                       /\ run.call = "create"
                       /\ run.err # NoErr
                       /\ run.requeueAfter = NoRequeue
                       /\ run.after = run.before
                 /\ (run.seen # run.before /\ run.call # "none") =>
                       /\ run.err # NoErr
                       /\ run.requeueAfter = NoRequeue
                       /\ run.after = run.before
                 /\ (run.err = NoErr /\ run.call # "none") => run.before = run.seen
                 /\ run.err = NoErr =>
                       /\ run.requeueAfter = syncAfter(resource[1])
                       /\ run.call = "none" =>
                             (run.seen # Nil /\ run.seen[1].spec = run.desired[1].spec)
                       /\ run.call # "none" =>
                             (run.after # Nil /\ run.after[1].spec = run.desired[1].spec)
                 /\ wk[2] > 1 =>
                       /\ inflight[wk[1]].runs[wk[2] - 1].err # NoErr
                       /\ run.seen = inflight[wk[1]].runs[wk[2] - 1].after
                       /\ run.err = NoErr
                       /\ netpols[NetworkPolicyName(resource[1])] = run.after
                       /\ run.after[1].spec = run.desired[1].spec

\* Both workers read the NetworkPolicy as absent; the first one's Create was
\* accepted and the second one's refused, and the second one's retry has updated
\* the rule to the one it desires.
C26_Witness ==
    /\ inflight # <<>>
    /\ Len(inflight[1].runs) = 1
    /\ Len(inflight[2].runs) = 2
    /\ inflight[1].runs[1].seen = Nil
    /\ inflight[1].runs[1].err = NoErr
    /\ inflight[2].runs[1].seen = Nil
    /\ inflight[2].runs[1].call = "create"
    /\ inflight[2].runs[1].err # NoErr
    /\ inflight[2].runs[2].seen = inflight[1].runs[1].after
    /\ inflight[2].runs[2].call = "update"
    /\ inflight[2].runs[2].err = NoErr
    /\ netpols[NetworkPolicyName(resource[1])][1].spec = inflight[2].runs[2].desired[1].spec
    /\ netpols[NetworkPolicyName(resource[1])][1].resourceVersion = 2

====
